---- MODULE Spec2Model ----
(***************************************************************************)
(* A state-machine model of the tower-defence simulation core:             *)
(*   Grid            (gameplay/Grid.ts)       cells, placeTower, removeTower *)
(*   PathManager     (gameplay/PathManager.ts) cost field and flow field     *)
(*   Pool            (ecs/Pool.ts)            request / recycle              *)
(*   SpatialHashGrid (gameplay/CollisionManager.ts) insert/remove/update,    *)
(*                                            queryRadius, queryNearest      *)
(*   Economy         (gameplay/WaveManager.ts) gold, ledger, interest        *)
(*   World, EnemyPool, EnemyFactory, ProjectilePool, ProjectileSystem       *)
(*   WaveManager     (gameplay/WaveManager.ts) the wave state machine        *)
(*   TowerFactory and GameManager (gameplay/WaveManager.ts) purchases        *)
(* Each subsystem has its own next-state relation and specification; the   *)
(* variables of the other subsystems stay at their constructed values.     *)
(***************************************************************************)
EXTENDS Integers, Sequences, FiniteSets, TLC

VARIABLES
  cells,       \* Grid.cells: position -> GridCell
  nSetCell,    \* number of setCell calls made so far (bounded)
  costs,       \* PathManager.flowField.costs
  directions,  \* PathManager.flowField.directions
  isDirty,     \* PathManager.isDirty
  dirty,       \* PathManager.flowField.dirty
  available,   \* Pool.available (a stack of pooled values)
  holding,     \* the value each holder got from request() and has not recycled
  created,     \* number of createFn calls made by the Pool
  returned,    \* the values recycled and not requested again since
  heap,        \* SpatialObject instances: reference -> fields
  objects,     \* SpatialHashGrid.objects: entityId -> reference
  grid,        \* SpatialHashGrid.grid: cell key -> sequence of references
  nUpdate,     \* number of update calls made so far (bounded)
  economy,     \* the Economy: gold, totals, interest timer, transactions
  wave,        \* the WaveManager: waveState, currentWave, timers and counters
  timers,      \* number of auto-start timeouts set and not yet fired
  frame,       \* parity of the number of frames the game loop has run
  lastSpawn,   \* the group and the spawnTimer of the latest spawn of this wave
  entities,    \* World.entities: entity id -> set of component types
  nextEntityId,\* World.nextEntityId
  components,  \* World.components: component type -> the ids of the entities holding one
  health,      \* the Health components: entity id -> current and max
  enemyAvailable, \* the EnemyPool's Pool.available (a stack of entity ids)
  activeEnemies,  \* EnemyPool.activeEnemies
  enemyData,   \* EnemyFactory.enemyData: entity id -> EnemyData
  towerData,   \* TowerFactory.towerData: entity id -> TowerData
  projectileAvailable, \* the ProjectilePool's Pool.available
  activeProjectiles,   \* ProjectilePool.activeProjectiles
  projectileData,      \* ProjectilePool.projectileData: entity id -> Projectile
  enemyPosition,       \* the Position components of the enemies' entities
  enemyMovement,       \* the Movement components of the enemies' entities
  enemyHits,   \* per enemy entity, the damage of each hit taken since it was spawned
  projectilePosition,  \* the Position components of the projectiles' entities
  projectileMovement,  \* the Movement components of the projectiles' entities
  collision,   \* the objects of the CollisionManager's spatial grid, by entity id
  gameUpdate,  \* GameManager.update: the frame time and the calls made so far
  last         \* the operation that produced this state, with its result

vars == <<cells, nSetCell, costs, directions, isDirty, dirty,
          available, holding, created, returned, heap, objects, grid, nUpdate,
          economy, wave, timers, frame, lastSpawn, entities, nextEntityId, components, health,
          enemyAvailable, activeEnemies, enemyData, towerData,
          projectileAvailable, activeProjectiles, projectileData,
          enemyPosition, enemyMovement, enemyHits, projectilePosition, projectileMovement,
          collision, gameUpdate, last>>

gridVars    == <<cells, nSetCell>>
flowVars    == <<costs, directions, isDirty, dirty>>
poolVars    == <<available, holding, created, returned>>
spatialVars == <<heap, objects, grid, nUpdate>>
econVars    == <<economy>>
waveVars    == <<wave, timers, frame, lastSpawn>>
worldVars   == <<entities, nextEntityId, components, health>>
enemyVars   == <<enemyAvailable, activeEnemies, enemyData, enemyPosition,
                 enemyMovement, enemyHits>>
towerVars   == <<towerData>>
projVars    == <<projectileAvailable, activeProjectiles, projectileData,
                 projectilePosition, projectileMovement>>
loopVars    == <<collision, gameUpdate>>
gameVars    == <<econVars, waveVars, worldVars, enemyVars, towerVars, projVars,
                 loopVars>>
coreVars    == <<gridVars, flowVars, poolVars, spatialVars>>

(***************************************************************************)
(* Bounds of the model                                                     *)
(***************************************************************************)
GridWidth   == 3      \* Grid constructor argument width
GridHeight  == 3      \* Grid constructor argument height
MaxEntityId == 1      \* entity ids handed to placeTower are 1..MaxEntityId
MaxSetCell  == 1      \* at most this many setCell calls in a behaviour

\* JavaScript values
Undefined == -1       \* the value of an absent optional field
Null      == -2       \* the value null
Infinity  == 999999   \* Number Infinity: larger than every finite cost

Truthy(v) == v # Undefined /\ v # Null /\ v # 0

(***************************************************************************)
(* Grid                                                                    *)
(***************************************************************************)
Cells     == [x : 0 .. GridWidth - 1, y : 0 .. GridHeight - 1]
\* positions a caller may pass: every cell, and two positions out of bounds
PosInputs == Cells \cup { [x |-> -1, y |-> 0], [x |-> GridWidth, y |-> GridHeight] }
EntityIds == 1 .. MaxEntityId

pathY == GridHeight \div 2
spawn == [x |-> 0, y |-> pathY]
goal  == [x |-> GridWidth - 1, y |-> pathY]

EmptyCell == [type |-> "empty", walkable |-> FALSE, buildable |-> TRUE,
              occupiedBy |-> Undefined]

\* initializeCells followed by generateDefaultPath
generateDefaultPath ==
  [p \in Cells |->
     IF p.y = pathY
       THEN [type |-> IF p.x = 0 THEN "spawn"
                      ELSE IF p.x = GridWidth - 1 THEN "goal" ELSE "path",
             walkable |-> TRUE, buildable |-> FALSE, occupiedBy |-> Undefined]
       ELSE EmptyCell]

isValidPosition(pos) ==
  pos.x >= 0 /\ pos.x < GridWidth /\ pos.y >= 0 /\ pos.y < GridHeight

\* getCell returns null for an invalid position; callers test that first
isBuildable(c, pos) ==
  isValidPosition(pos) /\ c[pos].buildable /\ ~Truthy(c[pos].occupiedBy)

isWalkable(c, pos) ==
  isValidPosition(pos) /\ c[pos].walkable

\* the four directions of hasValidPath, in the order of the source
directions4 == << [x |-> 0, y |-> -1], [x |-> 1, y |-> 0],
                  [x |-> 0, y |-> 1],  [x |-> -1, y |-> 0] >>

Add(p, d) == [x |-> p.x + d.x, y |-> p.y + d.y]

\* the inner for-loop of hasValidPath: enqueue the unvisited walkable neighbours
RECURSIVE bfsExpand(_, _, _, _, _)
bfsExpand(c, current, i, queue, visited) ==
  IF i > Len(directions4) THEN [queue |-> queue, visited |-> visited]
  ELSE LET next == Add(current, directions4[i])
       IN IF next \notin visited /\ isWalkable(c, next)
            THEN bfsExpand(c, current, i + 1, Append(queue, next), visited \cup {next})
            ELSE bfsExpand(c, current, i + 1, queue, visited)

\* the while-loop of hasValidPath
RECURSIVE bfsLoop(_, _, _)
bfsLoop(c, queue, visited) ==
  IF queue = << >> THEN FALSE
  ELSE LET current == Head(queue)
       IN IF current = goal THEN TRUE
          ELSE LET r == bfsExpand(c, current, 1, Tail(queue), visited)
               IN bfsLoop(c, r.queue, r.visited)

hasValidPath(c) == bfsLoop(c, << spawn >>, {spawn})

\* a placement that also makes the cell an obstacle for walkers
OccupyBlocks(c, pos, entityId) ==
  [c EXCEPT ![pos].occupiedBy = entityId, ![pos].buildable = FALSE,
            ![pos].walkable = FALSE]

\* placeTower: the tentative marking of the cell (lines 99-101)
Occupy(c, pos, entityId) ==
  [c EXCEPT ![pos].occupiedBy = entityId, ![pos].buildable = FALSE]

\* a revert that forgets to make the cell buildable again
RevertOccupantOnly(c, pos) ==
  [c EXCEPT ![pos].occupiedBy = Undefined]

\* placeTower: the revert of a placement that fails the path check (105-106)
Revert(c, pos) ==
  [c EXCEPT ![pos].occupiedBy = Undefined, ![pos].buildable = TRUE]

PlaceTower(pos, entityId) ==
  /\ IF ~isBuildable(cells, pos)
       THEN /\ cells' = cells
            /\ last' = [op |-> "placeTower", result |-> FALSE, why |-> "notBuildable"]
       ELSE LET tentative == Occupy(cells, pos, entityId)
            IN IF ~hasValidPath(tentative)
                 THEN /\ cells' = Revert(tentative, pos)
                      /\ last' = [op |-> "placeTower", result |-> FALSE, why |-> "noPath"]
                 ELSE /\ cells' = tentative
                      /\ last' = [op |-> "placeTower", result |-> TRUE, why |-> "placed"]
  /\ UNCHANGED <<nSetCell, flowVars, poolVars, spatialVars, gameVars>>

RemoveTower(pos) ==
  /\ IF ~isValidPosition(pos) \/ ~Truthy(cells[pos].occupiedBy)
       THEN /\ cells' = cells
            /\ last' = [op |-> "removeTower", result |-> FALSE]
       ELSE /\ cells' = [cells EXCEPT ![pos].occupiedBy = Undefined,
                                      ![pos].buildable = TRUE]
            /\ last' = [op |-> "removeTower", result |-> TRUE]
  /\ UNCHANGED <<nSetCell, flowVars, poolVars, spatialVars, gameVars>>

\* the GridCell values a caller passes to setCell
CellInputs ==
  { EmptyCell,
    [type |-> "blocked", walkable |-> FALSE, buildable |-> FALSE, occupiedBy |-> Undefined],
    [type |-> "path", walkable |-> TRUE, buildable |-> FALSE, occupiedBy |-> Undefined],
    [type |-> "path", walkable |-> TRUE, buildable |-> TRUE, occupiedBy |-> Undefined] }

SetCell(pos, cell) ==
  /\ nSetCell < MaxSetCell
  /\ gameUpdate.calls = << >>
  /\ nSetCell' = nSetCell + 1
  /\ IF ~isValidPosition(pos)
       THEN /\ cells' = cells
            /\ last' = [op |-> "setCell", result |-> FALSE]
       ELSE /\ cells' = [cells EXCEPT ![pos] = cell]
            /\ last' = [op |-> "setCell", result |-> TRUE]
  /\ UNCHANGED <<flowVars, poolVars, spatialVars, gameVars>>

(***************************************************************************)
(* PathManager: costs are in thousandths (orthogonal step 1000, diagonal   *)
(* step 1414); stored directions are unit vectors in thousandths.          *)
(***************************************************************************)
Zero == [x |-> 0, y |-> 0]

\* the eight directions of calculateCostField and calculateFlowField, in source order
directions8 == << [x |-> 0, y |-> -1], [x |-> 1, y |-> 0],
                  [x |-> 0, y |-> 1],  [x |-> -1, y |-> 0],
                  [x |-> 1, y |-> -1], [x |-> 1, y |-> 1],
                  [x |-> -1, y |-> 1], [x |-> -1, y |-> -1] >>

Abs(n) == IF n < 0 THEN -n ELSE n

\* initializeFlowField
initialCosts      == [p \in Cells |-> Infinity]
initialDirections == [p \in Cells |-> Zero]

resetCosts(cost) == [p \in Cells |-> Infinity]

\* a movement cost that ignores the diagonal
movementCostAllOne(dir) == 1000

\* isDiagonal ? 1.414 : 1.0
movementCost(dir) == IF Abs(dir.x) + Abs(dir.y) = 2 THEN 1414 ELSE 1000

\* "Find minimum cost node": the first index holding the least cost
minIndex(queue) ==
  CHOOSE i \in 1 .. Len(queue) :
    /\ \A j \in 1 .. Len(queue) : queue[j].cost >= queue[i].cost
    /\ \A j \in 1 .. i - 1 : queue[j].cost > queue[i].cost

\* queue.splice(index, 1)
splice(queue, i) == SubSeq(queue, 1, i - 1) \o SubSeq(queue, i + 1, Len(queue))

\* the loop over the neighbours of the node taken from the queue
RECURSIVE relax(_, _, _, _, _, _)
relax(c, current, i, queue, visited, cost) ==
  IF i > Len(directions8) THEN [queue |-> queue, cost |-> cost]
  ELSE LET dir      == directions8[i]
           neighbor == Add(current.pos, dir)
       IN IF \/ ~isValidPosition(neighbor)
             \/ neighbor \in visited
             \/ ~c[neighbor].walkable
            THEN relax(c, current, i + 1, queue, visited, cost)
            ELSE LET newCost == current.cost + movementCost(dir)
                 IN IF newCost < cost[neighbor]
                      THEN relax(c, current, i + 1,
                                 Append(queue, [pos |-> neighbor, cost |-> newCost]),
                                 visited, [cost EXCEPT ![neighbor] = newCost])
                      ELSE relax(c, current, i + 1, queue, visited, cost)

\* the while-loop of calculateCostField
RECURSIVE costLoop(_, _, _, _)
costLoop(c, queue, visited, cost) ==
  IF queue = << >> THEN cost
  ELSE LET mi      == minIndex(queue)
           current == queue[mi]
           rest    == splice(queue, mi)
       IN IF current.pos \in visited
            THEN costLoop(c, rest, visited, cost)
            ELSE LET v == visited \cup {current.pos}
                     r == relax(c, current, 1, rest, v, cost)
                 IN costLoop(c, r.queue, v, r.cost)

calculateCostField(c, g, cost) ==
  costLoop(c, << [pos |-> g, cost |-> 0] >>, {}, [cost EXCEPT ![g] = 0])

\* the loop over the neighbours of one cell in calculateFlowField
RECURSIVE bestDirection(_, _, _, _, _)
bestDirection(cost, p, i, best, lowestCost) ==
  IF i > Len(directions8) THEN best
  ELSE LET dir == directions8[i]
           n   == Add(p, dir)
       IN IF isValidPosition(n) /\ cost[n] < lowestCost
            THEN bestDirection(cost, p, i + 1, dir, cost[n])
            ELSE bestDirection(cost, p, i + 1, best, lowestCost)

\* x / length and y / length, length = sqrt(x*x + y*y), in thousandths
normalize(d) ==
  LET len2 == d.x * d.x + d.y * d.y
  IN IF len2 = 0 THEN Zero
     ELSE IF len2 = 1 THEN [x |-> d.x * 1000, y |-> d.y * 1000]
     ELSE [x |-> d.x * 707, y |-> d.y * 707]

\* a flow field that leaves the direction of an unreachable cell as it was
calculateFlowFieldKeepsUnreachable(cost, dirs) ==
  [p \in Cells |->
     IF cost[p] = Infinity THEN dirs[p]
     ELSE normalize(bestDirection(cost, p, 1, Zero, cost[p]))]

calculateFlowField(cost, dirs) ==
  [p \in Cells |->
     IF cost[p] = Infinity THEN Zero
     ELSE normalize(bestDirection(cost, p, 1, Zero, cost[p]))]

\* a computeFlowField that does not test the dirty flags
ComputeFlowFieldAlways(g) ==
  /\ costs' = calculateCostField(cells, g, resetCosts(costs))
  /\ directions' = calculateFlowField(costs', directions)
  /\ isDirty' = FALSE
  /\ dirty' = FALSE
  /\ last' = [op |-> "computeFlowField", g |-> g, wasDirty |-> isDirty \/ dirty]
  /\ UNCHANGED <<gridVars, poolVars, spatialVars, gameVars>>

ComputeFlowField(g) ==
  /\ IF ~isDirty /\ ~dirty
       THEN /\ UNCHANGED flowVars
            /\ last' = [op |-> "computeFlowField", wasDirty |-> FALSE]
       ELSE /\ costs' = calculateCostField(cells, g, resetCosts(costs))
            /\ directions' = calculateFlowField(costs', directions)
            /\ isDirty' = FALSE
            /\ dirty' = FALSE
            /\ last' = [op |-> "computeFlowField", g |-> g, wasDirty |-> TRUE]
  /\ UNCHANGED <<gridVars, poolVars, spatialVars, gameVars>>

MarkDirty ==
  /\ gameUpdate.calls = << >>
  /\ isDirty' = TRUE
  /\ dirty' = TRUE
  /\ last' = [op |-> "markDirty"]
  /\ UNCHANGED <<costs, directions, gridVars, poolVars, spatialVars, gameVars>>

(***************************************************************************)
(* Pool                                                                    *)
(***************************************************************************)
PoolCapacity == 2     \* Pool constructor argument capacity
NumHolders   == 3     \* callers that keep the value request() gave them

PoolValues == 1 .. PoolCapacity      \* the values createFn made, in creation order
Holders    == 1 .. NumHolders

Range(seq) == { seq[i] : i \in 1 .. Len(seq) }

getAvailableCount == Len(available)

getUsedCount == PoolCapacity - Len(available)

\* a recycle without the capacity test
recycleUnguarded(avail, obj) == Append(avail, obj)

\* recycle: the new contents of available (resetFn only resets the value's fields)
recycle(avail, obj) ==
  IF Len(avail) >= PoolCapacity THEN avail ELSE Append(avail, obj)

\* request() by a holder that holds nothing
Request(h) ==
  /\ holding[h] = Null
  /\ IF Len(available) = 0
       THEN /\ UNCHANGED <<available, holding, returned>>
            /\ last' = [op |-> "request", holder |-> h, result |-> Null,
                        wasEmpty |-> TRUE]
       ELSE /\ available' = SubSeq(available, 1, Len(available) - 1)
            /\ holding' = [holding EXCEPT ![h] = available[Len(available)]]
            /\ returned' = returned \ {available[Len(available)]}
            /\ last' = [op |-> "request", holder |-> h,
                        result |-> available[Len(available)], wasEmpty |-> FALSE]
  /\ UNCHANGED <<created, gridVars, flowVars, spatialVars, gameVars>>

\* a holder recycles the value it holds and lets go of it
Recycle(h) ==
  /\ holding[h] # Null
  /\ available' = recycle(available, holding[h])
  /\ holding' = [holding EXCEPT ![h] = Null]
  /\ returned' = returned \cup {holding[h]}
  /\ last' = [op |-> "recycle", obj |-> holding[h], again |-> FALSE]
  /\ UNCHANGED <<created, gridVars, flowVars, spatialVars, gameVars>>

\* a caller recycles once more a value that was recycled already and has not
\* been requested again since
RecycleAgain(obj) ==
  /\ obj \in returned
  /\ available' = recycle(available, obj)
  /\ last' = [op |-> "recycle", obj |-> obj, again |-> TRUE]
  /\ UNCHANGED <<holding, created, returned, gridVars, flowVars, spatialVars, gameVars>>

(***************************************************************************)
(* SpatialHashGrid.  A SpatialObject is an instance on the heap; the map   *)
(* objects and the buckets of grid hold references to instances, so a      *)
(* position written through one reference is seen through all of them.     *)
(***************************************************************************)
CellSize       == 2   \* SpatialHashGrid constructor argument cellSize
MaxCoord       == 2   \* world x coordinates are 0 .. MaxCoord
MaxCoordY      == 1   \* world y coordinates are 0 .. MaxCoordY
MaxObjRadius   == 1   \* object radii are 0 .. MaxObjRadius
MaxQueryRadius == 2   \* query radii are 0 .. MaxQueryRadius
MaxSpatialId   == 2   \* entity ids are 1 .. MaxSpatialId
MaxRefs        == 2   \* SpatialObject instances alive at a time
MaxUpdate      == 1   \* at most this many update calls in a behaviour

Points     == [x : 0 .. MaxCoord, y : 0 .. MaxCoordY]
Teams      == {"player", "enemy"}
NoTeam     == "none"                 \* the optional team argument left out
SpatialIds == 1 .. MaxSpatialId
Refs       == 1 .. MaxRefs

Restrict(f, D) == [k \in D |-> f[k]]

\* Math.floor(v / cellSize)
cellOf(v) == v \div CellSize

\* the keys of the buckets the object's bounding box overlaps
getCellsForObject(obj) ==
  { [x |-> cx, y |-> cy] :
      cx \in cellOf(obj.position.x - obj.radius) .. cellOf(obj.position.x + obj.radius),
      cy \in cellOf(obj.position.y - obj.radius) .. cellOf(obj.position.y + obj.radius) }

\* findIndex(o => o.entityId === entityId) and splice(index, 1)
spliceEntity(h, bucket, entityId) ==
  LET hits == { i \in 1 .. Len(bucket) : h[bucket[i]].entityId = entityId }
  IN IF hits = {} THEN bucket
     ELSE LET index == CHOOSE i \in hits : \A j \in hits : i <= j
          IN SubSeq(bucket, 1, index - 1) \o SubSeq(bucket, index + 1, Len(bucket))

\* remove(entityId) on the index S = [heap, objects, grid]
remove(S, entityId) ==
  IF entityId \notin DOMAIN S.objects THEN S
  ELSE LET obj     == S.heap[S.objects[entityId]]
           keys    == getCellsForObject(obj) \cap DOMAIN S.grid
           after   == [k \in keys |-> spliceEntity(S.heap, S.grid[k], entityId)]
           emptied == { k \in keys : Len(after[k]) = 0 }
       IN [heap    |-> S.heap,
           objects |-> Restrict(S.objects, DOMAIN S.objects \ {entityId}),
           grid    |-> [k \in DOMAIN S.grid \ emptied |->
                          IF k \in keys THEN after[k] ELSE S.grid[k]]]

\* insert(obj), obj being the instance at reference ref
insert(S, ref) ==
  LET obj  == S.heap[ref]
      R    == remove(S, obj.entityId)
      keys == getCellsForObject(obj)
  IN [heap    |-> R.heap,
      objects |-> [k \in DOMAIN R.objects \cup {obj.entityId} |->
                     IF k = obj.entityId THEN ref ELSE R.objects[k]],
      grid    |-> [k \in DOMAIN R.grid \cup keys |->
                     IF k \in keys
                       THEN Append(IF k \in DOMAIN R.grid THEN R.grid[k] ELSE << >>, ref)
                       ELSE R.grid[k]]]

\* update(entityId, newPosition): the position is written, then insert(obj)
update(S, entityId, newPosition) ==
  IF entityId \notin DOMAIN S.objects THEN S
  ELSE LET ref == S.objects[entityId]
       IN insert([S EXCEPT !.heap[ref].position = newPosition], ref)

\* instances no longer referenced by objects or by a bucket are garbage
collect(S) ==
  LET used == { S.objects[k] : k \in DOMAIN S.objects }
              \cup UNION { Range(S.grid[k]) : k \in DOMAIN S.grid }
  IN [S EXCEPT !.heap = Restrict(S.heap, used)]

Index == [heap |-> heap, objects |-> objects, grid |-> grid]

SetIndex(S) ==
  /\ heap' = collect(S).heap
  /\ objects' = S.objects
  /\ grid' = S.grid

\* insert of a new object literal {entityId, position, radius, team}
Insert(entityId, position, radius, team) ==
  /\ DOMAIN heap # Refs
  /\ LET ref == CHOOSE r \in Refs \ DOMAIN heap : \A q \in Refs \ DOMAIN heap : r <= q
         obj == [entityId |-> entityId, position |-> position, radius |-> radius,
                 team |-> team]
         H   == [r \in DOMAIN heap \cup {ref} |-> IF r = ref THEN obj ELSE heap[r]]
     IN SetIndex(insert([Index EXCEPT !.heap = H], ref))
  /\ last' = [op |-> "insert"]
  /\ UNCHANGED <<nUpdate, gridVars, flowVars, poolVars, gameVars>>

Remove(entityId) ==
  /\ SetIndex(remove(Index, entityId))
  /\ last' = [op |-> "remove"]
  /\ UNCHANGED <<nUpdate, gridVars, flowVars, poolVars, gameVars>>

Update(entityId, newPosition) ==
  /\ nUpdate < MaxUpdate
  /\ nUpdate' = nUpdate + 1
  /\ SetIndex(update(Index, entityId, newPosition))
  /\ last' = [op |-> "update"]
  /\ UNCHANGED <<gridVars, flowVars, poolVars, gameVars>>

Clear ==
  /\ SetIndex([heap |-> heap, objects |-> << >>, grid |-> << >>])
  /\ last' = [op |-> "clear"]
  /\ UNCHANGED <<nUpdate, gridVars, flowVars, poolVars, gameVars>>

\* dx * dx + dy * dy
distSquared(a, b) == (a.x - b.x) * (a.x - b.x) + (a.y - b.y) * (a.y - b.y)

\* the bucket keys of a query, x in the outer loop and y in the inner loop
queryKeys(minCellX, maxCellX, minCellY, maxCellY) ==
  LET ny == maxCellY - minCellY + 1
      nx == maxCellX - minCellX + 1
  IN [i \in 1 .. nx * ny |->
        [x |-> minCellX + ((i - 1) \div ny), y |-> minCellY + ((i - 1) % ny)]]

\* the instances met by the two loops over the buckets, in order
RECURSIVE visited(_, _, _)
visited(S, keys, i) ==
  IF i > Len(keys) THEN << >>
  ELSE (IF keys[i] \in DOMAIN S.grid THEN S.grid[keys[i]] ELSE << >>)
         \o visited(S, keys, i + 1)

RECURSIVE scanRadius(_, _, _, _, _, _, _, _)
scanRadius(S, refs, i, checked, results, center, radiusSquared, team) ==
  IF i > Len(refs) THEN results
  ELSE LET obj == S.heap[refs[i]]
       IN IF obj.entityId \in checked
            THEN scanRadius(S, refs, i + 1, checked, results, center, radiusSquared, team)
          ELSE IF team # NoTeam /\ obj.team # team
            THEN scanRadius(S, refs, i + 1, checked \cup {obj.entityId}, results,
                            center, radiusSquared, team)
          ELSE IF distSquared(obj.position, center) <= radiusSquared
            THEN scanRadius(S, refs, i + 1, checked \cup {obj.entityId},
                            Append(results, refs[i]), center, radiusSquared, team)
          ELSE scanRadius(S, refs, i + 1, checked \cup {obj.entityId}, results,
                          center, radiusSquared, team)

\* queryRadius: the sequence of instances returned
queryRadius(S, center, radius, team) ==
  LET keys == queryKeys(cellOf(center.x - radius), cellOf(center.x + radius),
                        cellOf(center.y - radius), cellOf(center.y + radius))
  IN scanRadius(S, visited(S, keys, 1), 1, {}, << >>, center, radius * radius, team)

RECURSIVE scanNearest(_, _, _, _, _, _)
scanNearest(S, objs, i, nearest, nearestDistSquared, center) ==
  IF i > Len(objs) THEN nearest
  ELSE LET d == distSquared(S.heap[objs[i]].position, center)
       IN IF d < nearestDistSquared
            THEN scanNearest(S, objs, i + 1, objs[i], d, center)
            ELSE scanNearest(S, objs, i + 1, nearest, nearestDistSquared, center)

\* queryNearest: the instance returned, or Null
queryNearest(S, center, maxRadius, team) ==
  scanNearest(S, queryRadius(S, center, maxRadius, team), 1, Null,
              maxRadius * maxRadius, center)

(***************************************************************************)
(* Economy                                                                 *)
(***************************************************************************)
StartingGold    == 100   \* gameConfig.startingGold
SmallAmount     == 60    \* an amount below the starting balance
LargeAmount     == 1000  \* an amount above the starting balance
TickDt          == 5     \* the frame times are TickDt and 2 * TickDt seconds
MaxTransactions == 3     \* at most this many ledger entries in a behaviour

\* EconomyConfig as the GameManager constructs it; rates in hundredths
InterestRatePct         == 2      \* interestRate: 0.02
InterestInterval        == 15     \* interestInterval: 15.0
MaxInterestGold         == 1000   \* maxInterestGold: 1000
KillBountyMultiplierPct == 100    \* killBountyMultiplier: 1.0
WaveBountyMultiplierPct == 100    \* waveBountyMultiplier: 1.0
SellRefundRatePct       == 70     \* sellRefundRate: 0.7
TransactionLimit        == 100    \* "Keep only last 100 transactions"

Amounts == {0, SmallAmount, LargeAmount}
Dts     == {TickDt, 2 * TickDt}

Min(a, b) == IF a < b THEN a ELSE b
Max(a, b) == IF a > b THEN a ELSE b

\* Math.floor(amount * pct / 100) for a non-negative amount
FloorPct(amount, pct) == (amount * pct) \div 100

\* new Economy(config)
NewEconomy ==
  [gold |-> StartingGold, interestTimer |-> 0, transactions |-> << >>,
   totalEarned |-> 0, totalSpent |-> 0,
   killBountyMultiplier |-> KillBountyMultiplierPct,
   waveBountyMultiplier |-> WaveBountyMultiplierPct,
   bonusTimeouts |-> << >>, bonusBase |-> KillBountyMultiplierPct]

\* recordTransaction: the new ledger (an entry is its type and amount; the
\* source text and the timestamp are left out)
recordTransaction(log, type, amount) ==
  LET pushed == Append(log, [type |-> type, amount |-> amount])
  IN IF Len(pushed) > TransactionLimit
       THEN SubSeq(pushed, Len(pushed) - TransactionLimit + 1, Len(pushed))
       ELSE pushed

\* an addGold that forgets the earned total
addGoldUntallied(e, amount) ==
  [e EXCEPT !.gold = @ + amount,
            !.transactions = recordTransaction(@, "income", amount)]

\* addGold: the economy afterwards
addGold(e, amount) ==
  [e EXCEPT !.gold = @ + amount,
            !.totalEarned = @ + amount,
            !.transactions = recordTransaction(@, "income", amount)]

\* the events addGold emits, in order
addGoldEvents == <<"economy:transaction", "economy:goldChanged">>

\* a spendGold without the balance test
spendGoldUnchecked(e, amount) ==
  [e EXCEPT !.gold = @ - amount,
            !.totalSpent = @ + amount,
            !.transactions = recordTransaction(@, "expense", amount)]

\* spendGold: the economy afterwards
spendGold(e, amount) ==
  IF e.gold < amount
    THEN e
    ELSE [e EXCEPT !.gold = @ - amount,
                   !.totalSpent = @ + amount,
                   !.transactions = recordTransaction(@, "expense", amount)]

\* spendGold: the value returned
spendGoldResult(e, amount) == ~(e.gold < amount)

\* the events spendGold emits, in order
spendGoldEvents(e, amount) ==
  IF e.gold < amount
    THEN <<"economy:insufficientFunds">>
    ELSE <<"economy:transaction", "economy:goldChanged">>

canAfford(e, amount) == e.gold >= amount

\* the interest calculateInterest grants for a balance (0: none is granted)
interestOf(balance) ==
  IF balance <= 0 THEN 0 ELSE FloorPct(Min(balance, MaxInterestGold), InterestRatePct)

\* calculateInterest: the economy afterwards
calculateInterest(e) ==
  IF interestOf(e.gold) > 0 THEN addGold(e, interestOf(e.gold)) ELSE e

\* an updateInterest that keeps the timer running after a grant
updateInterestNoRestart(e, dt) ==
  LET t == e.interestTimer + dt
  IN IF t >= InterestInterval
       THEN [calculateInterest(e) EXCEPT !.interestTimer = t]
       ELSE [e EXCEPT !.interestTimer = t]

\* updateInterest: the economy afterwards
updateInterest(e, dt) ==
  LET t == e.interestTimer + dt
  IN IF t >= InterestInterval
       THEN [calculateInterest(e) EXCEPT !.interestTimer = 0]
       ELSE [e EXCEPT !.interestTimer = t]

updateInterestEvents(e, dt) ==
  IF e.interestTimer + dt >= InterestInterval /\ interestOf(e.gold) > 0
    THEN addGoldEvents \o <<"economy:interest">>
    ELSE << >>

\* the ledger may still grow
LedgerOpen == Len(economy.transactions) < MaxTransactions

\* addGold called through the public API
AddGold(amount) ==
  /\ LedgerOpen
  /\ economy' = addGold(economy, amount)
  /\ last' = [op |-> "addGold", amount |-> amount, emitted |-> addGoldEvents]
  /\ UNCHANGED <<coreVars, waveVars, worldVars, enemyVars, towerVars, projVars, loopVars>>

\* spendGold called through the public API
SpendGold(amount) ==
  /\ LedgerOpen
  /\ economy' = spendGold(economy, amount)
  /\ last' = [op |-> "spendGold", amount |-> amount,
              result |-> spendGoldResult(economy, amount),
              emitted |-> spendGoldEvents(economy, amount)]
  /\ UNCHANGED <<coreVars, waveVars, worldVars, enemyVars, towerVars, projVars, loopVars>>

\* the Economy's listener for enemy:killed
OnEnemyKilled(bounty) ==
  /\ LedgerOpen
  /\ economy' = addGold(economy, FloorPct(bounty, economy.killBountyMultiplier))
  /\ last' = [op |-> "enemy:killed", amount |-> bounty, emitted |-> addGoldEvents]
  /\ UNCHANGED <<coreVars, waveVars, worldVars, enemyVars, towerVars, projVars, loopVars>>

\* the Economy's listener for wave:completed
OnWaveCompleted(bounty) ==
  /\ LedgerOpen
  /\ economy' = addGold(economy, FloorPct(bounty, economy.waveBountyMultiplier))
  /\ last' = [op |-> "wave:completed", amount |-> bounty, emitted |-> addGoldEvents]
  /\ UNCHANGED <<coreVars, waveVars, worldVars, enemyVars, towerVars, projVars, loopVars>>

\* the Economy's listener for tower:purchased
OnTowerPurchased(cost) ==
  /\ LedgerOpen
  /\ economy' = spendGold(economy, cost)
  /\ last' = [op |-> "tower:purchased", amount |-> cost,
              result |-> spendGoldResult(economy, cost),
              emitted |-> spendGoldEvents(economy, cost)]
  /\ UNCHANGED <<coreVars, waveVars, worldVars, enemyVars, towerVars, projVars, loopVars>>

\* the Economy's listener for tower:upgraded
OnTowerUpgraded(cost) ==
  /\ LedgerOpen
  /\ economy' = spendGold(economy, cost)
  /\ last' = [op |-> "tower:upgraded", amount |-> cost,
              result |-> spendGoldResult(economy, cost),
              emitted |-> spendGoldEvents(economy, cost)]
  /\ UNCHANGED <<coreVars, waveVars, worldVars, enemyVars, towerVars, projVars, loopVars>>

\* the Economy's listener for tower:sold
OnTowerSold(refund) ==
  /\ LedgerOpen
  /\ economy' = addGold(economy, FloorPct(refund, SellRefundRatePct))
  /\ last' = [op |-> "tower:sold", amount |-> refund, emitted |-> addGoldEvents]
  /\ UNCHANGED <<coreVars, waveVars, worldVars, enemyVars, towerVars, projVars, loopVars>>

\* Economy.update(dt)
EconomyUpdate(dt) ==
  /\ LedgerOpen
  /\ economy' = updateInterest(economy, dt)
  /\ last' = [op |-> "economy.update", dt |-> dt,
              emitted |-> updateInterestEvents(economy, dt)]
  /\ UNCHANGED <<coreVars, waveVars, worldVars, enemyVars, towerVars, projVars, loopVars>>

SavedTransactions == 20   \* "Save last 20 transactions"

\* Economy.serialize: the snapshot
serialize(e) ==
  [gold |-> e.gold, totalEarned |-> e.totalEarned, totalSpent |-> e.totalSpent,
   interestTimer |-> e.interestTimer,
   config |-> [killBountyMultiplier |-> e.killBountyMultiplier,
               waveBountyMultiplier |-> e.waveBountyMultiplier],
   transactions |-> SubSeq(e.transactions,
                           Max(1, Len(e.transactions) - SavedTransactions + 1),
                           Len(e.transactions))]

\* Economy.deserialize(data): the Economy afterwards; a field of the snapshot
\* that is falsy is replaced by its default
deserialize(e, data) ==
  [gold |-> IF Truthy(data.gold) THEN data.gold ELSE StartingGold,
   totalEarned |-> IF Truthy(data.totalEarned) THEN data.totalEarned ELSE 0,
   totalSpent |-> IF Truthy(data.totalSpent) THEN data.totalSpent ELSE 0,
   interestTimer |-> IF Truthy(data.interestTimer) THEN data.interestTimer ELSE 0,
   transactions |-> data.transactions,
   killBountyMultiplier |-> data.config.killBountyMultiplier,
   waveBountyMultiplier |-> data.config.waveBountyMultiplier,
   bonusTimeouts |-> e.bonusTimeouts, bonusBase |-> e.bonusBase]

BonusPct   == 200   \* the multiplier of a bonus: 2.0
MaxBonuses == 2     \* bonus timeouts pending at one time

\* the largest multiplier a behaviour reaches: three bonuses on top of each other
MaxMultiplierPct ==
  FloorPct(FloorPct(FloorPct(KillBountyMultiplierPct, BonusPct), BonusPct), BonusPct)

\* Economy.applyBonusMultiplier(multiplier, duration, source): the economy
\* afterwards. bonusTimeouts holds the originalMultiplier each pending
\* timeout has captured; bonusBase records the multiplier before the first
\* of the bonuses that are pending together.
applyBonusMultiplier(e, multiplier) ==
  [e EXCEPT !.killBountyMultiplier = FloorPct(@, multiplier),
            !.bonusTimeouts = Append(@, e.killBountyMultiplier),
            !.bonusBase = IF e.bonusTimeouts = << >> THEN e.killBountyMultiplier
                          ELSE @]

\* the timeout of applyBonusMultiplier: the economy after pending timeout i fired
bonusExpired(e, i) ==
  [e EXCEPT !.killBountyMultiplier = e.bonusTimeouts[i],
            !.bonusTimeouts = [j \in 1 .. Len(@) - 1 |->
                                 IF j < i THEN @[j] ELSE @[j + 1]]]

\* economy.applyBonusMultiplier(multiplier, duration, source)
ApplyBonusMultiplier(multiplier) ==
  /\ Len(economy.bonusTimeouts) < MaxBonuses
  /\ FloorPct(economy.killBountyMultiplier, multiplier) <= MaxMultiplierPct
  /\ economy' = applyBonusMultiplier(economy, multiplier)
  /\ last' = [op |-> "applyBonusMultiplier", multiplier |-> multiplier,
              emitted |-> <<"economy:bonusActive">>]
  /\ UNCHANGED <<coreVars, waveVars, worldVars, enemyVars, towerVars, projVars, loopVars>>

\* a bonus's duration is over: its timeout fires
BonusExpired(i) ==
  /\ i \in 1 .. Len(economy.bonusTimeouts)
  /\ economy' = bonusExpired(economy, i)
  /\ last' = [op |-> "bonusExpired", restored |-> economy.bonusTimeouts[i],
              emitted |-> <<"economy:bonusExpired">>]
  /\ UNCHANGED <<coreVars, waveVars, worldVars, enemyVars, towerVars, projVars, loopVars>>

\* spendGold called with the whole balance as the amount
SpendAll ==
  /\ LedgerOpen
  /\ economy' = spendGold(economy, economy.gold)
  /\ last' = [op |-> "spendGold", amount |-> economy.gold,
              result |-> spendGoldResult(economy, economy.gold),
              emitted |-> spendGoldEvents(economy, economy.gold)]
  /\ UNCHANGED <<coreVars, waveVars, worldVars, enemyVars, towerVars, projVars, loopVars>>

\* the game is saved and loaded again: deserialize(serialize())
SaveAndLoad ==
  /\ economy' = deserialize(economy, serialize(economy))
  /\ last' = [op |-> "economy.load", emitted |-> <<"economy:goldChanged">>]
  /\ UNCHANGED <<coreVars, waveVars, worldVars, enemyVars, towerVars, projVars, loopVars>>

(***************************************************************************)
(* World, EnemyPool, EnemyFactory                                          *)
(***************************************************************************)
EnemyPoolSize      == 2   \* EnemyFactory constructor argument poolSize
ProjectilePoolSize == 2   \* gameConfig.performance.maxProjectiles
NormalHealth       == 100 \* health of the enemy template "normal"
NormalBounty       == 10  \* bounty of the enemy template "normal"
ArmoredHealth      == 2   \* health of the enemy template "armored"
HighArmor          == 500 \* armor of the enemy template "armored"
HeavyDamage        == 25  \* damage of a projectile
HalfCell           == 8   \* half of gameConfig.gridSize, the side of a cell
NormalSpeed        == 4   \* speed of the enemy templates
Regeneration       == 1   \* abilities.regeneration of the template "regenerating"
MaxHits            == 3   \* hits remembered per enemy

DefaultHealth == 100      \* new Health(100) in EnemyPool.createEnemy

\* the enemy templates of config/enemies.json, keyed by id
EnemyConfigs ==
  [t \in {"normal", "armored", "regenerating"} |->
     IF t = "armored"
       THEN [health |-> ArmoredHealth, armor |-> HighArmor, bounty |-> 2 * NormalBounty,
             speed |-> NormalSpeed, regeneration |-> 0]
       ELSE [health |-> NormalHealth, armor |-> 0, bounty |-> NormalBounty,
             speed |-> NormalSpeed,
             regeneration |-> IF t = "regenerating" THEN Regeneration ELSE 0]]

\* the enemy types a caller may pass: every template, and an unknown one
EnemyTypeInputs == {"normal", "armored", "unknown"}

DamageInputs == {HeavyDamage}

\* the entities the EnemyPool and the ProjectilePool create when constructed
EnemyIds      == 1 .. EnemyPoolSize
ProjectileIds == EnemyPoolSize + 1 .. EnemyPoolSize + ProjectilePoolSize

\* EnemyPool.createEnemy / ProjectilePool.createProjectile: the component types
EnemyComponents      == {"Position", "Health", "Movement", "Render", "Team"}
ProjectileComponents == {"Position", "Movement", "Render", "Team"}

\* a projectile without area damage: aoe is undefined
NoAoe == [radius |-> 0, falloff |-> 0]

\* new Projectile()
NewProjectile ==
  [damage |-> 0, lifetime |-> 0, maxLifetime |-> 0, piercing |-> FALSE,
   aoe |-> NoAoe, targetId |-> Undefined, hasHit |-> FALSE]

\* f with key k removed / set to v
Without(f, k) == [x \in DOMAIN f \ {k} |-> f[x]]
With(f, k, v) == [x \in DOMAIN f \cup {k} |-> IF x = k THEN v ELSE f[x]]

\* Grid.cellSize
cellSize == 2 * HalfCell

\* Grid.gridToWorld: the centre of the cell
gridToWorld(gridPos) ==
  [x |-> gridPos.x * cellSize + HalfCell, y |-> gridPos.y * cellSize + HalfCell]

\* new Movement(); direction and velocity are kept in thousandths
NewMovement == [speed |-> 0, velocity |-> Zero, direction |-> Zero]

\* Movement.updateVelocity
updateVelocity(m) ==
  [m EXCEPT !.velocity = [x |-> m.direction.x * m.speed, y |-> m.direction.y * m.speed]]

\* Movement.setDirection
setDirection(m, dir) == updateVelocity([m EXCEPT !.direction = dir])

\* Movement.setSpeed
setSpeed(m, speed) == updateVelocity([m EXCEPT !.speed = speed])

\* position.x += velocity.x * dt; position.y += velocity.y * dt, a position
\* being kept in whole pixels
moved(pos, velocity, dt) ==
  [x |-> pos.x + (velocity.x * dt) \div 1000, y |-> pos.y + (velocity.y * dt) \div 1000]

\* GameManager.update has made no call yet
NewUpdate == [dt |-> 0, calls |-> << >>, pending |-> {}, killed |-> {}, ticks |-> 0]

\* the enemy side of the world as one value: the components of the enemies'
\* entities, the pool's available stack, the active set and the EnemyData
\* records; hits remembers what applyDamage was called with
EnemyWorld ==
  [health |-> health, available |-> enemyAvailable, active |-> activeEnemies,
   data |-> enemyData, position |-> enemyPosition, movement |-> enemyMovement,
   hits |-> enemyHits]

\* EnemyFactory.spawnEnemy returns an entity (not null)
spawnEnemyResult(E, enemyType) ==
  enemyType \in DOMAIN EnemyConfigs /\ E.available # << >>

\* a spawnEnemy that asks the pool for an entity before it looks up the type
spawnEnemyPoolFirst(E, enemyType) ==
  IF E.available = << >> THEN E
  ELSE IF enemyType \notin DOMAIN EnemyConfigs
    THEN [E EXCEPT !.available = SubSeq(@, 1, Len(@) - 1)]
    ELSE LET id     == E.available[Len(E.available)]
             config == EnemyConfigs[enemyType]
         IN [health    |-> [E.health EXCEPT ![id] = [current |-> config.health,
                                                    max |-> config.health]],
             available |-> SubSeq(E.available, 1, Len(E.available) - 1),
             active    |-> E.active \cup {id},
             data      |-> With(E.data, id, [type |-> enemyType, armor |-> config.armor,
                                            bounty |-> config.bounty,
                                            currentSpeed |-> config.speed]),
             position  |-> [E.position EXCEPT ![id] = gridToWorld(spawn)],
             movement  |-> [E.movement EXCEPT ![id] = setSpeed(@, config.speed)],
             hits      |-> [E.hits EXCEPT ![id] = << >>]]

\* EnemyFactory.spawnEnemy with EnemyPool.spawn: the enemy side afterwards
spawnEnemy(E, enemyType) ==
  IF ~spawnEnemyResult(E, enemyType)
    THEN E
    ELSE LET id     == E.available[Len(E.available)]
             config == EnemyConfigs[enemyType]
         IN [health    |-> [E.health EXCEPT ![id] = [current |-> config.health,
                                                    max |-> config.health]],
             available |-> SubSeq(E.available, 1, Len(E.available) - 1),
             active    |-> E.active \cup {id},
             data      |-> With(E.data, id, [type |-> enemyType, armor |-> config.armor,
                                            bounty |-> config.bounty,
                                            currentSpeed |-> config.speed]),
             position  |-> [E.position EXCEPT ![id] = gridToWorld(spawn)],
             movement  |-> [E.movement EXCEPT ![id] = setSpeed(@, config.speed)],
             hits      |-> [E.hits EXCEPT ![id] = << >>]]

\* the entity EnemyFactory.spawnEnemy hands out
spawnedId(E) == E.available[Len(E.available)]

\* EnemyPool.despawn with Pool.recycle and EnemyPool.resetEnemy
despawn(E, enemyId) ==
  IF enemyId \notin E.active \/ enemyId \notin DOMAIN entities
       \/ Len(E.available) >= EnemyPoolSize
    THEN E
    ELSE [E EXCEPT !.position[enemyId] = Zero,
                   !.health[enemyId].current = E.health[enemyId].max,
                   !.movement[enemyId] = setDirection(setSpeed(@, 0), Zero),
                   !.active = @ \ {enemyId},
                   !.available = Append(@, enemyId)]

\* EnemyFactory.destroyEnemy: the bounty returned
destroyEnemyResult(E, enemyId) ==
  IF enemyId \in DOMAIN E.data THEN E.data[enemyId].bounty ELSE 0

\* a destroyEnemy that returns the entity to the pool and keeps the record
destroyEnemyKeepRecord(E, enemyId) ==
  IF enemyId \notin DOMAIN E.data THEN E ELSE despawn(E, enemyId)

\* EnemyFactory.destroyEnemy: the enemy side afterwards
destroyEnemy(E, enemyId) ==
  IF enemyId \notin DOMAIN E.data
    THEN E
    ELSE despawn([E EXCEPT !.data = Without(@, enemyId)], enemyId)

\* EnemyPool.clear: despawn every active enemy, then empty the active set
RECURSIVE despawnAll(_, _)
despawnAll(E, ids) ==
  IF ids = {} THEN E
  ELSE LET id == CHOOSE i \in ids : \A j \in ids : i <= j
       IN despawnAll(despawn(E, id), ids \ {id})

\* EnemyFactory.clear
clearEnemies(E) ==
  [despawnAll([E EXCEPT !.data = << >>], E.active) EXCEPT !.active = {}]

\* an armor reduction without the floor of 1
takeDamageNoFloor(armor, damage) == Max(0, damage - armor)

\* EnemyData.takeDamage: the damage left after armor
takeDamage(armor, damage) == Max(1, damage - armor)

\* Health.takeDamage: the health afterwards
healthAfter(current, amount) == Max(0, current - amount)

\* EnemyFactory.applyDamage: the value returned
applyDamageResult(E, enemyId, damage) ==
  /\ enemyId \in DOMAIN E.data
  /\ enemyId \in DOMAIN E.health
  /\ healthAfter(E.health[enemyId].current,
                 takeDamage(E.data[enemyId].armor, damage)) <= 0

\* EnemyFactory.applyDamage: the enemy side afterwards
applyDamage(E, enemyId, damage) ==
  IF enemyId \notin DOMAIN E.data \/ enemyId \notin DOMAIN E.health
    THEN E
    ELSE [E EXCEPT !.health[enemyId].current =
                     healthAfter(@, takeDamage(E.data[enemyId].armor, damage)),
                   !.hits[enemyId] = IF Len(@) < MaxHits THEN Append(@, damage) ELSE @]

\* the enemy variables take the values of E
SetEnemyWorld(E) ==
  /\ health' = E.health
  /\ enemyAvailable' = E.available
  /\ activeEnemies' = E.active
  /\ enemyData' = E.data
  /\ enemyPosition' = E.position
  /\ enemyMovement' = E.movement
  /\ enemyHits' = E.hits

(***************************************************************************)
(* WaveManager                                                             *)
(***************************************************************************)
PrepTime      == 10   \* prepTime of every wave of config/waves.json
SpawnInterval == 10   \* interval of every spawn group
GroupDelay    == 10   \* delay of the second spawn group of wave 1
WaveBounty    == 20   \* bounty of every wave
MaxWave       == 2    \* waves are started up to this wave number
MaxKilled     == 3    \* kill and escape events counted within one wave
MaxTimers     == 1    \* auto-start timeouts pending at one time
HealthScalingPct == 50 \* scaling.healthScaling of config/waves.json, in hundredths
SpeedScalingPct  == 10 \* scaling.speedScaling, in hundredths
BountyScalingPct == 20 \* scaling.bountyScaling, in hundredths

\* the waves of config/waves.json: one wave, of one enemy and a delayed
\* group of one more
WaveConfigs ==
  << [bounty |-> WaveBounty, prepTime |-> PrepTime,
      enemies |-> << [type |-> "normal", count |-> 1, interval |-> SpawnInterval,
                      delay |-> Undefined],
                     [type |-> "normal", count |-> 1, interval |-> SpawnInterval,
                      delay |-> GroupDelay] >>] >>

\* waveData.endless: the template asks for one enemy more than the pool holds
EndlessStartWave == Len(WaveConfigs) + 1
EndlessTemplate ==
  [bounty |-> WaveBounty, prepTime |-> PrepTime,
   enemies |-> << [type |-> "normal", count |-> EnemyPoolSize + 1,
                   interval |-> SpawnInterval, delay |-> Undefined] >>]

\* the wave numbers a caller may pass to startWave; Undefined: no argument
WaveNumberInputs == {Undefined} \cup (1 .. MaxWave)

\* new WaveManager(enemyFactory); waves is indexed by wave number (the array
\* index plus one)
NewWave(endlessEnabled) ==
  [waves |-> WaveConfigs, endlessEnabled |-> endlessEnabled,
   currentWave |-> 0, waveState |-> "waiting",
   prepTimer |-> 0, spawnTimer |-> 0, currentSpawnGroup |-> 0,
   enemiesSpawnedInGroup |-> 0, totalEnemiesSpawned |-> 0,
   totalEnemiesKilled |-> 0, autoStart |-> FALSE]

\* getCurrentWaveConfig returns a wave (not null)
hasCurrentWaveConfig(w) == w.currentWave \in DOMAIN w.waves

\* getCurrentWaveConfig, where it returns a wave
getCurrentWaveConfig(w) == w.waves[w.currentWave]

\* no enemy is due
NoSpawn == "nothing"

\* updatePreparing
updatePreparing(w, dt) ==
  LET t == w.prepTimer - dt
  IN IF t <= 0
       THEN [w EXCEPT !.prepTimer = t, !.waveState = "spawning", !.spawnTimer = 0,
                      !.currentSpawnGroup = 0, !.enemiesSpawnedInGroup = 0]
       ELSE [w EXCEPT !.prepTimer = t]

\* updateSpawning: the type of the enemy this call spawns, or NoSpawn
spawnDue(w, dt) ==
  LET config == getCurrentWaveConfig(w)
      t      == w.spawnTimer + dt
  IN IF ~hasCurrentWaveConfig(w) \/ w.currentSpawnGroup >= Len(config.enemies)
       THEN NoSpawn
     ELSE LET spawnGroup == config.enemies[w.currentSpawnGroup + 1]
              groupDelay == IF Truthy(spawnGroup.delay) THEN spawnGroup.delay ELSE 0
              expectedSpawns == ((t - groupDelay) \div spawnGroup.interval) + 1
          IN IF /\ t >= groupDelay
                /\ w.enemiesSpawnedInGroup < expectedSpawns
                /\ w.enemiesSpawnedInGroup < spawnGroup.count
               THEN spawnGroup.type
               ELSE NoSpawn

\* updateSpawning: the wave manager afterwards; spawned tells whether the
\* enemy factory handed out an enemy for the spawn that was due
updateSpawning(w, dt, spawned) ==
  LET config == getCurrentWaveConfig(w)
      t      == w.spawnTimer + dt
  IN IF ~hasCurrentWaveConfig(w) THEN w
     ELSE LET inGroup ==
                IF spawnDue(w, dt) # NoSpawn THEN w.enemiesSpawnedInGroup + 1
                ELSE w.enemiesSpawnedInGroup
              groupDone ==
                /\ w.currentSpawnGroup < Len(config.enemies)
                /\ LET spawnGroup == config.enemies[w.currentSpawnGroup + 1]
                       groupDelay == IF Truthy(spawnGroup.delay) THEN spawnGroup.delay
                                     ELSE 0
                   IN t >= groupDelay /\ inGroup >= spawnGroup.count
              group == IF groupDone THEN w.currentSpawnGroup + 1
                       ELSE w.currentSpawnGroup
          IN [w EXCEPT !.spawnTimer = t,
                       !.totalEnemiesSpawned = IF spawned THEN @ + 1 ELSE @,
                       !.enemiesSpawnedInGroup = IF groupDone THEN 0 ELSE inGroup,
                       !.currentSpawnGroup = group,
                       !.waveState = IF group >= Len(config.enemies)
                                       THEN "active" ELSE @]

\* completeWave: the wave manager afterwards
completeWave(w) ==
  [w EXCEPT !.waveState = IF w.autoStart THEN "completed" ELSE "waiting",
            !.totalEnemiesSpawned = 0, !.totalEnemiesKilled = 0,
            !.currentSpawnGroup = 0, !.enemiesSpawnedInGroup = 0,
            !.spawnTimer = 0]

\* the values completeWave assigns to waveState, in order
completeWaveTrail(w) ==
  IF w.autoStart THEN <<"completed">> ELSE <<"completed", "waiting">>

\* a wave completion test that ignores the live enemies
completesOnCountAlone(w, active) ==
  w.waveState = "active" /\ w.totalEnemiesKilled >= w.totalEnemiesSpawned

\* checkWaveCompletion: whether it calls completeWave
completes(w, active) ==
  /\ w.waveState = "active"
  /\ Cardinality(active) = 0
  /\ w.totalEnemiesKilled >= w.totalEnemiesSpawned

\* generateEndlessWave: the generated wave
generatedWave(w) ==
  LET waveMultiplier == ((w.currentWave - EndlessStartWave) \div 5) + 1
  IN [bounty |-> EndlessTemplate.bounty * waveMultiplier,
      prepTime |-> EndlessTemplate.prepTime,
      enemies |-> [i \in 1 .. Len(EndlessTemplate.enemies) |->
                     [EndlessTemplate.enemies[i] EXCEPT
                        !.count = EndlessTemplate.enemies[i].count * waveMultiplier]]]

\* a startWave that does not test the wave state
startWaveAnytime(w, waveNumber) ==
  LET n == IF waveNumber # Undefined THEN waveNumber ELSE w.currentWave + 1
      w1 == [w EXCEPT !.currentWave = n]
  IN IF ~hasCurrentWaveConfig(w1)
       THEN IF ~w.endlessEnabled THEN w1
            ELSE [w1 EXCEPT !.waves = With(@, n, generatedWave(w1)),
                            !.waveState = "preparing",
                            !.prepTimer = generatedWave(w1).prepTime]
       ELSE [w1 EXCEPT !.waveState = "preparing",
                       !.prepTimer = getCurrentWaveConfig(w1).prepTime]

\* startWave: the wave manager afterwards
startWave(w, waveNumber) ==
  IF w.waveState # "waiting" /\ w.waveState # "completed"
    THEN w
    ELSE LET n == IF waveNumber # Undefined THEN waveNumber ELSE w.currentWave + 1
             w1 == [w EXCEPT !.currentWave = n]
         IN IF ~hasCurrentWaveConfig(w1)
              THEN IF ~w.endlessEnabled THEN w1
                   ELSE [w1 EXCEPT !.waves = With(@, n, generatedWave(w1)),
                                   !.waveState = "preparing",
                                   !.prepTimer = generatedWave(w1).prepTime]
              ELSE [w1 EXCEPT !.waveState = "preparing",
                              !.prepTimer = getCurrentWaveConfig(w1).prepTime]

\* startWave: the value returned
startWaveResult(w) == w.waveState = "waiting" \/ w.waveState = "completed"

\* getScaledEnemyConfig with scaling.mode 'linear': the multipliers, in
\* hundredths
getScaledEnemyConfig(w) ==
  IF w.currentWave <= 1
    THEN [healthMultiplier |-> 100, speedMultiplier |-> 100, bountyMultiplier |-> 100]
    ELSE [healthMultiplier |-> 100 + (w.currentWave - 1) * HealthScalingPct,
          speedMultiplier  |-> 100 + (w.currentWave - 1) * SpeedScalingPct,
          bountyMultiplier |-> 100 + (w.currentWave - 1) * BountyScalingPct]

\* WaveManager.spawnEnemy: the scaledStats it computes (speed in hundredths);
\* it then calls enemyFactory.spawnEnemy(enemyType), which reads the template
scaledStats(w, enemyType) ==
  LET originalConfig == EnemyConfigs[enemyType]
      scaledConfig   == getScaledEnemyConfig(w)
  IN [health |-> FloorPct(originalConfig.health, scaledConfig.healthMultiplier),
      speed  |-> originalConfig.speed * scaledConfig.speedMultiplier,
      bounty |-> FloorPct(originalConfig.bounty, scaledConfig.bountyMultiplier)]

\* the values a handler assigned to waveState: none when it stays as it was
Trail(w, w2) == IF w2.waveState = w.waveState THEN << >> ELSE <<w2.waveState>>

\* PathManager.computeFlowField(g) as a step of a larger handler, when called
computeFlowFieldIf(called, g) ==
  IF called /\ (isDirty \/ dirty)
    THEN LET costField == calculateCostField(cells, g, resetCosts(costs))
         IN /\ costs' = costField
            /\ directions' = calculateFlowField(costField, directions)
            /\ isDirty' = FALSE
            /\ dirty' = FALSE
    ELSE UNCHANGED flowVars

\* no enemy was spawned since the wave began to spawn
NeverSpawned == [group |-> Undefined, at |-> 0]

\* the enemies a wave asks for
RECURSIVE waveSize(_, _)
waveSize(groups, i) ==
  IF i > Len(groups) THEN 0 ELSE groups[i].count + waveSize(groups, i + 1)

\* WaveManager.update(dt), but for the frame count of its caller
waveUpdate(dt) ==
  LET due     == IF wave.waveState = "spawning" THEN spawnDue(wave, dt) ELSE NoSpawn
      spawned == due # NoSpawn /\ spawnEnemyResult(EnemyWorld, due)
  IN /\ wave' = CASE wave.waveState = "preparing" -> updatePreparing(wave, dt)
                  [] wave.waveState = "spawning"  -> updateSpawning(wave, dt, spawned)
                  [] OTHER -> wave
     /\ SetEnemyWorld(IF due # NoSpawn THEN spawnEnemy(EnemyWorld, due) ELSE EnemyWorld)
     /\ computeFlowFieldIf(spawned, goal)
     /\ lastSpawn' = IF spawned
                        THEN [group |-> wave.currentSpawnGroup, at |-> wave'.spawnTimer]
                      ELSE IF wave.waveState = "preparing" THEN NeverSpawned
                      ELSE lastSpawn
     /\ last' = [op |-> "wave", trail |-> Trail(wave, wave')]
     /\ UNCHANGED <<gridVars, poolVars, spatialVars, econVars, timers, entities,
                    nextEntityId, components, projVars, towerVars>>

\* WaveManager.update(dt) called on its own
WaveUpdate(dt) ==
  /\ waveUpdate(dt)
  /\ frame' = frame
  /\ UNCHANGED loopVars

\* a frame of the game loop: GameManager.update(dt) calls WaveManager.update(dt)
GameLoopUpdate(dt) ==
  /\ waveUpdate(dt)
  /\ frame' = 1 - frame
  /\ UNCHANGED loopVars

\* WaveManager.startWave(waveNumber), also reached through startNextWave
StartWave(waveNumber) ==
  /\ waveNumber # Undefined \/ wave.currentWave < MaxWave
  /\ wave' = startWave(wave, waveNumber)
  /\ last' = [op |-> "wave", trail |-> Trail(wave, wave')]
  /\ UNCHANGED <<coreVars, econVars, timers, frame, lastSpawn, worldVars, enemyVars, projVars,
                 towerVars, loopVars>>

\* the timeout set by completeWave fires and calls startNextWave
AutoStartTimer ==
  /\ timers > 0
  /\ wave.currentWave < MaxWave
  /\ timers' = timers - 1
  /\ wave' = startWave(wave, Undefined)
  /\ last' = [op |-> "wave", trail |-> Trail(wave, wave')]
  /\ UNCHANGED <<coreVars, econVars, frame, lastSpawn, worldVars, enemyVars, projVars, towerVars, loopVars>>

\* WaveManager.skipPrep()
SkipPrep ==
  /\ wave' = IF wave.waveState = "preparing" THEN [wave EXCEPT !.prepTimer = 0]
             ELSE wave
  /\ last' = [op |-> "wave", trail |-> << >>]
  /\ UNCHANGED <<coreVars, econVars, timers, frame, lastSpawn, worldVars, enemyVars, projVars,
                 towerVars, loopVars>>

\* WaveManager.stopWave()
StopWave ==
  /\ wave' = [wave EXCEPT !.waveState = "waiting", !.totalEnemiesSpawned = 0,
                          !.totalEnemiesKilled = 0]
  /\ SetEnemyWorld(clearEnemies(EnemyWorld))
  /\ last' = [op |-> "wave", trail |-> Trail(wave, wave'), call |-> "stopWave"]
  /\ UNCHANGED <<coreVars, econVars, timers, frame, lastSpawn, entities, nextEntityId, components, projVars,
                 towerVars, loopVars>>

\* WaveManager.setAutoStart(enabled)
SetAutoStart(enabled) ==
  /\ wave' = [wave EXCEPT !.autoStart = enabled]
  /\ last' = [op |-> "wave", trail |-> << >>]
  /\ UNCHANGED <<coreVars, econVars, timers, frame, lastSpawn, worldVars, enemyVars, projVars,
                 towerVars, loopVars>>

\* checkWaveCompletion after the count w1 was raised, as a step of a listener
checkWaveCompletion(w1) ==
  IF completes(w1, activeEnemies)
    THEN /\ wave.autoStart => timers < MaxTimers
         /\ wave' = completeWave(w1)
         /\ timers' = IF wave.autoStart THEN timers + 1 ELSE timers
         /\ last' = [op |-> "wave", trail |-> completeWaveTrail(w1)]
    ELSE /\ wave' = w1
         /\ timers' = timers
         /\ last' = [op |-> "wave", trail |-> << >>]

\* the WaveManager's listener for enemy:killed
WaveOnEnemyKilled ==
  /\ wave.totalEnemiesKilled < MaxKilled
  /\ checkWaveCompletion([wave EXCEPT !.totalEnemiesKilled = @ + 1])
  /\ UNCHANGED <<coreVars, econVars, frame, lastSpawn, worldVars, enemyVars, projVars, towerVars, loopVars>>

\* the WaveManager's listener for enemy:reachedGoal
WaveOnEnemyReachedGoal ==
  /\ wave.totalEnemiesKilled < MaxKilled
  /\ checkWaveCompletion([wave EXCEPT !.totalEnemiesKilled = @ + 1])
  /\ UNCHANGED <<coreVars, econVars, frame, lastSpawn, worldVars, enemyVars, projVars, towerVars, loopVars>>

\* enemyFactory.clear()
ClearEnemies ==
  /\ SetEnemyWorld(clearEnemies(EnemyWorld))
  /\ last' = [op |-> "clear"]
  /\ UNCHANGED <<coreVars, econVars, waveVars, entities, nextEntityId, components,
                 projVars, towerVars, loopVars>>

\* EnemyFactory.updateEnemy(enemyId, dt): the enemy side afterwards; the
\* records hold no status effects, so that currentSpeed stays what it is
updateEnemy(E, enemyId, dt) ==
  IF enemyId \notin DOMAIN E.data THEN E
  ELSE LET regeneration == EnemyConfigs[E.data[enemyId].type].regeneration
           h == E.health[enemyId]
       IN [E EXCEPT !.movement[enemyId] = setSpeed(@, E.data[enemyId].currentSpeed),
                    !.health[enemyId].current =
                       IF regeneration # 0 /\ h.current > 0
                         THEN Min(h.max, h.current + regeneration * dt)
                         ELSE @]

\* enemyFactory.updateEnemy(enemyId, dt)
UpdateEnemy(enemyId, dt) ==
  /\ SetEnemyWorld(updateEnemy(EnemyWorld, enemyId, dt))
  /\ last' = [op |-> "updateEnemy", enemyId |-> enemyId, dt |-> dt,
              healed |-> updateEnemy(EnemyWorld, enemyId, dt).health[enemyId].current
                           - health[enemyId].current]
  /\ UNCHANGED <<coreVars, econVars, waveVars, entities, nextEntityId, components,
                 projVars, towerVars, loopVars>>

\* EnemyFactory.destroyEnemy(enemyId), as the projectile system calls it
DestroyEnemy(enemyId) ==
  /\ SetEnemyWorld(destroyEnemy(EnemyWorld, enemyId))
  /\ last' = [op |-> "destroyEnemy", result |-> destroyEnemyResult(EnemyWorld, enemyId),
              trail |-> << >>, enemyId |-> enemyId]
  /\ UNCHANGED <<coreVars, econVars, waveVars, entities, nextEntityId, components, projVars,
                 towerVars, loopVars>>

(***************************************************************************)
(* World: the entity store                                                 *)
(***************************************************************************)
\* the component types of src/ecs/components and Health
ComponentTypes == {"Position", "Health", "Movement", "Render", "Team", "Attack"}

\* World.createEntity(): the store W (entities, components, nextEntityId and
\* whatever else the record holds) afterwards; the new id is W.nextEntityId
createEntity(W) ==
  [W EXCEPT !.entities = With(@, W.nextEntityId, {}),
            !.nextEntityId = @ + 1]

\* World.addComponent(entityId, component) and Entity.addComponent
addComponent(W, entityId, type) ==
  IF entityId \notin DOMAIN W.entities THEN W
  ELSE [W EXCEPT !.components[type] = @ \cup {entityId},
                 !.entities[entityId] = @ \cup {type}]

\* a removeComponent that leaves the entry of the component map behind
removeComponentTagOnly(W, entityId, type) ==
  IF entityId \notin DOMAIN W.entities THEN W
  ELSE [W EXCEPT !.entities[entityId] = @ \ {type}]

\* World.removeComponent(entityId, componentType) and Entity.removeComponent
removeComponent(W, entityId, type) ==
  IF entityId \notin DOMAIN W.entities THEN W
  ELSE [W EXCEPT !.components[type] = @ \ {entityId},
                 !.entities[entityId] = @ \ {type}]

\* the loop of destroyEntity over the component types in todo
RECURSIVE removeComponents(_, _, _)
removeComponents(W, entityId, todo) ==
  IF todo = {} THEN W
  ELSE LET type == CHOOSE t \in todo : TRUE
       IN removeComponents(removeComponent(W, entityId, type), entityId, todo \ {type})

\* a destroyEntity that forgets the entity but leaves its components in the
\* component maps
destroyEntityOnly(W, entityId) ==
  IF entityId \notin DOMAIN W.entities THEN W
  ELSE [W EXCEPT !.entities = Without(@, entityId)]

\* World.destroyEntity(entityId)
destroyEntity(W, entityId) ==
  IF entityId \notin DOMAIN W.entities THEN W
  ELSE [removeComponents(W, entityId, W.entities[entityId])
          EXCEPT !.entities = Without(@, entityId)]

\* World.getComponent(entityId, componentType) returns a component
getComponent(W, entityId, type) == entityId \in W.components[type]

\* World.getEntitiesWithComponents(...componentTypes): the ids of the result,
\* in the order of the entities map (the order of creation) from id on
RECURSIVE entitiesFrom(_, _, _)
entitiesFrom(W, types, id) ==
  IF id >= W.nextEntityId THEN << >>
  ELSE (IF id \in DOMAIN W.entities /\ types \subseteq W.entities[id]
          THEN <<id>> ELSE << >>) \o entitiesFrom(W, types, id + 1)

getEntitiesWithComponents(W, types) == entitiesFrom(W, types, 1)

\* the entity store as one value
WorldStore ==
  [entities |-> entities, components |-> components, nextEntityId |-> nextEntityId]

\* the variables of the entity store take the values of W
SetWorldStore(W) ==
  /\ entities' = W.entities
  /\ components' = W.components
  /\ nextEntityId' = W.nextEntityId

MaxCreated == 2   \* createEntity is called up to this many times by a client

\* the ids and component types a client of the store passes: an entity of the
\* enemy pool, the ids createEntity hands out and one id beyond them
WorldIdInputs ==
  {1} \cup (EnemyPoolSize + ProjectilePoolSize + 1 ..
             EnemyPoolSize + ProjectilePoolSize + MaxCreated + 1)
WorldTypeInputs == {"Position", "Attack"}

\* world.createEntity()
CreateEntity ==
  /\ nextEntityId < EnemyPoolSize + ProjectilePoolSize + 1 + MaxCreated
  /\ SetWorldStore(createEntity(WorldStore))
  /\ last' = [op |-> "createEntity", id |-> nextEntityId]
  /\ UNCHANGED <<coreVars, econVars, waveVars, health, enemyVars, towerVars, projVars,
                 loopVars>>

\* world.addComponent(entityId, component)
AddComponent(entityId, type) ==
  /\ SetWorldStore(addComponent(WorldStore, entityId, type))
  /\ last' = [op |-> "addComponent", id |-> entityId, type |-> type]
  /\ UNCHANGED <<coreVars, econVars, waveVars, health, enemyVars, towerVars, projVars,
                 loopVars>>

\* world.removeComponent(entityId, componentType)
RemoveComponent(entityId, type) ==
  /\ SetWorldStore(removeComponent(WorldStore, entityId, type))
  /\ last' = [op |-> "removeComponent", id |-> entityId, type |-> type]
  /\ UNCHANGED <<coreVars, econVars, waveVars, health, enemyVars, towerVars, projVars,
                 loopVars>>

\* world.destroyEntity(entityId)
DestroyEntity(entityId) ==
  /\ SetWorldStore(destroyEntity(WorldStore, entityId))
  /\ last' = [op |-> "destroyEntity", id |-> entityId,
              live |-> entityId \in DOMAIN entities]
  /\ UNCHANGED <<coreVars, econVars, waveVars, health, enemyVars, towerVars, projVars,
                 loopVars>>

\* world.getEntitiesWithComponents(...types)
GetEntitiesWithComponents(types) ==
  /\ last' = [op |-> "getEntitiesWithComponents", types |-> types,
              result |-> getEntitiesWithComponents(WorldStore, types)]
  /\ UNCHANGED <<coreVars, gameVars>>

(***************************************************************************)
(* TowerFactory and GameManager                                            *)
(***************************************************************************)
TowerCost        == 30  \* cost of the tower template "basic"
UpgradeCost      == 20  \* cost of the one upgrade of the template "basic"
MaxTowerEntities == 2   \* entities the tower factory creates in a behaviour

TowerRange       == 20  \* range of the tower template "basic"

FireRate         == 2   \* fireRate of the tower templates
BuffDmgPct       == 120 \* buffs.dmg of the template "support", in hundredths
BuffFireRatePct  == 150 \* buffs.firerate of the template "support", in hundredths
RangeMultPct     == 200 \* rangeMult of the one upgrade, in hundredths

\* a template without buffs
NoBuffs == [dmg |-> 0, firerate |-> 0]

\* the tower templates of config/towers.json, keyed by id
TowerConfigs ==
  [t \in {"basic", "support"} |->
     [cost |-> TowerCost,
      upgrades |-> <<[cost |-> UpgradeCost, rangeMult |-> RangeMultPct]>>,
      baseDamage |-> HeavyDamage, range |-> TowerRange, fireRate |-> FireRate,
      type |-> t,
      buffs |-> IF t = "support"
                  THEN [dmg |-> BuffDmgPct, firerate |-> BuffFireRatePct]
                  ELSE NoBuffs,
      projectileType |-> "basic"]]

\* the tower types a caller may pass: every template, and an unknown one
TowerTypeInputs == DOMAIN TowerConfigs \cup {"unknown"}

\* the entity ids a caller may pass to upgradeTower
TowerIdInputs ==
  EnemyPoolSize + ProjectilePoolSize + 1 ..
    EnemyPoolSize + ProjectilePoolSize + MaxTowerEntities

\* TowerFactory.createTower: the component types added
TowerComponents == {"Position", "Attack", "Render", "Team"}

\* new TowerData(config, gridPos)
NewTowerData(towerType, gridPos) ==
  [type |-> towerType, tier |-> 0, totalCost |-> TowerConfigs[towerType].cost,
   gridPosition |-> gridPos, lastTargetId |-> Undefined,
   buffedDamage |-> 100 * TowerConfigs[towerType].baseDamage,
   buffedFireRate |-> 100 * TowerConfigs[towerType].fireRate]

\* the tower side of the world as one value
TowerWorld ==
  [cells |-> cells, entities |-> entities, nextEntityId |-> nextEntityId,
   components |-> components, data |-> towerData]

\* TowerFactory.createTower: why it returns null, or "placed"
createTowerOutcome(T, towerType, gridPos) ==
  IF towerType \notin DOMAIN TowerConfigs THEN "unknownType"
  ELSE IF ~isBuildable(T.cells, gridPos) THEN "notBuildable"
  ELSE IF ~hasValidPath(Occupy(T.cells, gridPos, T.nextEntityId)) THEN "placeFailed"
  ELSE "placed"

\* createTower up to the call of Grid.placeTower: the entity with its four
\* components and the tower record
towerCreated(T, towerType, gridPos) ==
  LET id == T.nextEntityId
      W  == addComponent(addComponent(addComponent(addComponent(createEntity(T),
              id, "Position"), id, "Attack"), id, "Render"), id, "Team")
  IN [W EXCEPT !.data = With(@, id, NewTowerData(towerType, gridPos))]

\* a createTower whose clean-up forgets the tower record
createTowerLeaky(T, towerType, gridPos) ==
  LET id == T.nextEntityId
      outcome == createTowerOutcome(T, towerType, gridPos)
      built   == towerCreated(T, towerType, gridPos)
  IN IF outcome \in {"unknownType", "notBuildable"} THEN T
     ELSE IF outcome = "placeFailed"
       THEN [destroyEntity(built, id)
               EXCEPT !.cells = Revert(Occupy(T.cells, gridPos, id), gridPos)]
     ELSE [built EXCEPT !.cells = Occupy(T.cells, gridPos, id)]

\* TowerFactory.createTower with Grid.placeTower: the tower side afterwards
createTower(T, towerType, gridPos) ==
  LET id == T.nextEntityId
      outcome == createTowerOutcome(T, towerType, gridPos)
      built   == towerCreated(T, towerType, gridPos)
  IN IF outcome \in {"unknownType", "notBuildable"} THEN T
     ELSE IF outcome = "placeFailed"
       \* the entity and the record are created, then removed again
       THEN [destroyEntity(built, id)
               EXCEPT !.cells = Revert(Occupy(T.cells, gridPos, id), gridPos),
                      !.data = Without(@, id)]
     ELSE [built EXCEPT !.cells = Occupy(T.cells, gridPos, id)]

\* TowerFactory.getTowerCost
getTowerCost(towerType) ==
  IF towerType \in DOMAIN TowerConfigs THEN TowerConfigs[towerType].cost ELSE 0

\* TowerData.canUpgrade, for a record of the factory
canUpgrade(data, entityId) ==
  /\ entityId \in DOMAIN data
  /\ data[entityId].tier < Len(TowerConfigs[data[entityId].type].upgrades)

\* TowerFactory.getUpgradeCost
getUpgradeCost(data, entityId) ==
  IF canUpgrade(data, entityId)
    THEN TowerConfigs[data[entityId].type].upgrades[data[entityId].tier + 1].cost
    ELSE 0

\* TowerFactory.upgradeTower: the records afterwards
upgradeTower(data, entityId) ==
  IF ~canUpgrade(data, entityId) THEN data
  ELSE [data EXCEPT ![entityId].totalCost = @ + getUpgradeCost(data, entityId),
                    ![entityId].tier = @ + 1]

\* TowerData.getCurrentRange(), in hundredths
getCurrentRange(tower) ==
  TowerConfigs[tower.type].range *
    (IF tower.tier = 0 THEN 100
     ELSE TowerConfigs[tower.type].upgrades[tower.tier].rangeMult)

\* TowerData.applyBuffs(damageBonus, fireRateBonus), bonuses in hundredths
applyBuffs(tower, damageBonus, fireRateBonus) ==
  [tower EXCEPT !.buffedDamage = damageBonus, !.buffedFireRate = fireRateBonus]

\* calculateBuffs: the tower is within the range of the support tower
\* (distance <= buffRange, both sides squared)
inBuffRange(support, tower) ==
  distSquared(gridToWorld(tower.gridPosition), gridToWorld(support.gridPosition))
      * 10000
    <= getCurrentRange(support) * getCurrentRange(support)

\* calculateBuffs: the loops over the support towers and all towers, for the
\* pairs <<support, tower>> still to come
RECURSIVE applySupport(_, _)
applySupport(data, pairs) ==
  IF pairs = {} THEN data
  ELSE LET pair    == CHOOSE q \in pairs : TRUE
           buffs   == TowerConfigs[data[pair[1]].type].buffs
           config  == TowerConfigs[data[pair[2]].type]
       IN applySupport(
            [data EXCEPT ![pair[2]] =
               applyBuffs(@, @.buffedDamage + (buffs.dmg - 100) * config.baseDamage,
                          @.buffedFireRate + (buffs.firerate - 100) * config.fireRate)],
            pairs \ {pair})

\* calculateBuffs: the pairs <<support, tower>> of which the tower gets the
\* bonus of the support tower
buffPairs(T, data) ==
  LET allTowers == { id \in DOMAIN data : getComponent(T, id, "Position") }
  IN { pair \in allTowers \X allTowers :
         /\ TowerConfigs[data[pair[1]].type].type = "support"
         /\ TowerConfigs[data[pair[1]].type].buffs # NoBuffs
         /\ pair[1] # pair[2]
         /\ inBuffRange(data[pair[1]], data[pair[2]]) }

\* a calculateBuffs that does not reset the bonuses first
calculateBuffsOnTop(T) == applySupport(T.data, buffPairs(T, T.data))

\* TowerFactory.calculateBuffs(): the tower records afterwards
calculateBuffs(T) ==
  LET reset == [id \in DOMAIN T.data |->
                  IF getComponent(T, id, "Position") THEN applyBuffs(T.data[id], 0, 0)
                  ELSE T.data[id]]
  IN applySupport(reset, buffPairs(T, reset))

\* a destroyTower that leaves the cell of the tower as it is
destroyTowerKeepCell(T, entityId) ==
  IF entityId \notin DOMAIN T.data THEN T
  ELSE [destroyEntity(T, entityId) EXCEPT !.data = Without(@, entityId)]

\* TowerFactory.destroyTower(entityId) with Grid.removeTower
destroyTower(T, entityId) ==
  IF entityId \notin DOMAIN T.data THEN T
  ELSE LET pos == T.data[entityId].gridPosition
       IN [destroyEntity(T, entityId)
             EXCEPT !.data = Without(@, entityId),
                    !.cells = IF isValidPosition(pos) /\ Truthy(T.cells[pos].occupiedBy)
                                THEN [@ EXCEPT ![pos].occupiedBy = Undefined,
                                               ![pos].buildable = TRUE]
                                ELSE @]

\* the gold a purchase takes: GameManager calls spendGold, and the Economy's
\* listener for the tower:purchased / tower:upgraded event calls it again
charged(e, cost) == spendGold(spendGold(e, cost), cost)

\* the tower variables take the values of T
SetTowerWorld(T) ==
  /\ cells' = T.cells
  /\ entities' = T.entities
  /\ nextEntityId' = T.nextEntityId
  /\ components' = T.components
  /\ towerData' = T.data

\* GameManager.placeTower(towerType, gridPos)
GamePlaceTower(towerType, gridPos) ==
  LET cost == getTowerCost(towerType)
      outcome == createTowerOutcome(TowerWorld, towerType, gridPos)
  IN /\ nextEntityId < EnemyPoolSize + ProjectilePoolSize + 1 + MaxTowerEntities
     /\ gameUpdate.calls = << >>
     /\ IF ~canAfford(economy, cost)
          THEN /\ UNCHANGED <<cells, entities, nextEntityId, components, towerData, economy,
                              isDirty, dirty>>
               /\ last' = [op |-> "game.placeTower", result |-> FALSE,
                           why |-> "notEnoughGold", cost |-> cost]
          ELSE /\ SetTowerWorld(createTower(TowerWorld, towerType, gridPos))
               /\ economy' = IF outcome = "placed" THEN charged(economy, cost)
                             ELSE economy
               /\ isDirty' = (outcome = "placed" \/ isDirty)
               /\ dirty' = (outcome = "placed" \/ dirty)
               /\ last' = [op |-> "game.placeTower", result |-> (outcome = "placed"),
                           why |-> outcome, cost |-> cost]
     /\ UNCHANGED <<nSetCell, costs, directions, poolVars, spatialVars, waveVars,
                    health, enemyVars, projVars, loopVars>>

\* GameManager.upgradeTower(entityId)
GameUpgradeTower(entityId) ==
  LET cost == getUpgradeCost(towerData, entityId)
      done == canAfford(economy, cost) /\ canUpgrade(towerData, entityId)
  IN /\ towerData' = IF done THEN upgradeTower(towerData, entityId) ELSE towerData
     /\ economy' = IF done THEN charged(economy, cost) ELSE economy
     /\ last' = [op |-> "game.upgradeTower", result |-> done, why |-> "upgrade",
                 cost |-> cost]
     /\ UNCHANGED <<coreVars, waveVars, worldVars, enemyVars, projVars, loopVars>>

MaxTowers == 3   \* towers the factory creates in a behaviour of its own

\* the entity ids a caller may pass to the factory
FactoryIdInputs ==
  EnemyPoolSize + ProjectilePoolSize + 1 ..
    EnemyPoolSize + ProjectilePoolSize + MaxTowers

\* towerFactory.createTower(towerType, gridPos)
CreateTower(towerType, gridPos) ==
  /\ nextEntityId < EnemyPoolSize + ProjectilePoolSize + 1 + MaxTowers
  /\ SetTowerWorld(createTower(TowerWorld, towerType, gridPos))
  /\ last' = [op |-> "createTower", id |-> nextEntityId,
              why |-> createTowerOutcome(TowerWorld, towerType, gridPos)]
  /\ UNCHANGED <<nSetCell, flowVars, poolVars, spatialVars, econVars, waveVars,
                 health, enemyVars, projVars, loopVars>>

\* towerFactory.upgradeTower(entityId)
UpgradeTower(entityId) ==
  /\ towerData' = upgradeTower(towerData, entityId)
  /\ last' = [op |-> "upgradeTower", id |-> entityId,
              result |-> canUpgrade(towerData, entityId)]
  /\ UNCHANGED <<coreVars, econVars, waveVars, worldVars, enemyVars, projVars, loopVars>>

\* towerFactory.destroyTower(entityId)
DestroyTower(entityId) ==
  /\ SetTowerWorld(destroyTower(TowerWorld, entityId))
  /\ last' = [op |-> "destroyTower", id |-> entityId,
              result |-> entityId \in DOMAIN towerData]
  /\ UNCHANGED <<nSetCell, flowVars, poolVars, spatialVars, econVars, waveVars,
                 health, enemyVars, projVars, loopVars>>

\* towerFactory.calculateBuffs()
CalculateBuffs ==
  /\ towerData' = calculateBuffs(TowerWorld)
  /\ last' = [op |-> "calculateBuffs"]
  /\ UNCHANGED <<coreVars, econVars, waveVars, worldVars, enemyVars, projVars, loopVars>>

\* GameManager.spawnEnemy(enemyType)
GameSpawnEnemy(enemyType) ==
  /\ gameUpdate.calls = << >>
  /\ SetEnemyWorld(spawnEnemy(EnemyWorld, enemyType))
  /\ computeFlowFieldIf(spawnEnemyResult(EnemyWorld, enemyType), goal)
  /\ last' = [op |-> "game.spawnEnemy",
              result |-> spawnEnemyResult(EnemyWorld, enemyType)]
  /\ UNCHANGED <<gridVars, poolVars, spatialVars, econVars, waveVars, entities,
                 nextEntityId, components, towerVars, projVars, loopVars>>

\* EnemyFactory.applyDamage(enemyId, damage)
ApplyDamage(enemyId, damage) ==
  /\ SetEnemyWorld(applyDamage(EnemyWorld, enemyId, damage))
  /\ last' = [op |-> "applyDamage", enemyId |-> enemyId, damage |-> damage,
              result |-> applyDamageResult(EnemyWorld, enemyId, damage)]
  /\ UNCHANGED <<coreVars, econVars, waveVars, entities, nextEntityId, components, towerVars,
                 projVars, loopVars>>

(***************************************************************************)
(* ProjectilePool and ProjectileSystem                                     *)
(***************************************************************************)
ProjectileSpeed    == 2   \* speed of a projectile configuration
ProjectileLifetime == 10  \* lifetime of a projectile configuration
AoeRadius          == 11  \* aoe.radius of an area projectile configuration

AoeFalloffPct == 50       \* aoe.falloff: 0.5

\* a ProjectileConfig; aoe is NoAoe or [radius, falloff in hundredths]
projectileConfig(damage, piercing, aoe) ==
  [damage |-> damage, speed |-> ProjectileSpeed, lifetime |-> ProjectileLifetime,
   piercing |-> piercing, aoe |-> aoe]

\* Math.sqrt, rounded down to a whole number
sqrt(n) == CHOOSE r \in 0 .. n : r * r <= n /\ n < (r + 1) * (r + 1)

\* the projectile side of the world as one value
ProjectileWorld ==
  [available |-> projectileAvailable, active |-> activeProjectiles,
   data |-> projectileData, position |-> projectilePosition,
   movement |-> projectileMovement]

\* ProjectilePool.spawn returns an entity (not null)
spawnProjectileResult(P) == P.available # << >>

\* ProjectilePool.spawn(config, startPos, targetPos): the projectile side
\* afterwards
spawnProjectile(P, config, startPos, targetPos) ==
  IF ~spawnProjectileResult(P) THEN P
  ELSE LET id == P.available[Len(P.available)]
           dx == targetPos.x - startPos.x
           dy == targetPos.y - startPos.y
           distance == sqrt(dx * dx + dy * dy)
           direction == [x |-> (dx * 1000) \div distance, y |-> (dy * 1000) \div distance]
       IN [available |-> SubSeq(P.available, 1, Len(P.available) - 1),
           active    |-> P.active \cup {id},
           data      |-> [P.data EXCEPT ![id] =
                            [damage |-> config.damage, lifetime |-> 0,
                             maxLifetime |-> config.lifetime,
                             piercing |-> config.piercing, aoe |-> config.aoe,
                             targetId |-> Undefined, hasHit |-> FALSE]],
           position  |-> [P.position EXCEPT ![id] = startPos],
           movement  |-> [P.movement EXCEPT ![id] =
                            IF distance > 0
                              THEN setSpeed(setDirection(@, direction), config.speed)
                              ELSE @]]

\* ProjectilePool.despawn with Pool.recycle and resetProjectile
despawnProjectile(P, projectileId) ==
  IF projectileId \notin P.active \/ projectileId \notin DOMAIN entities
       \/ Len(P.available) >= ProjectilePoolSize
    THEN P
    ELSE [available |-> Append(P.available, projectileId),
          active    |-> P.active \ {projectileId},
          data      |-> [P.data EXCEPT ![projectileId] = NewProjectile],
          position  |-> [P.position EXCEPT ![projectileId] = Zero],
          movement  |-> [P.movement EXCEPT ![projectileId] =
                           setDirection(setSpeed(@, 0), Zero)]]

\* the projectile variables take the values of P
SetProjectileWorld(P) ==
  /\ projectileAvailable' = P.available
  /\ activeProjectiles' = P.active
  /\ projectileData' = P.data
  /\ projectilePosition' = P.position
  /\ projectileMovement' = P.movement

\* ProjectilePool.spawn(config, startPos, targetPos, targetId)
SpawnProjectile(config, startPos, targetPos) ==
  /\ gameUpdate.calls = << >>
  /\ SetProjectileWorld(spawnProjectile(ProjectileWorld, config, startPos, targetPos))
  /\ last' = [op |-> "projectile.spawn", result |-> spawnProjectileResult(ProjectileWorld)]
  /\ UNCHANGED <<coreVars, econVars, waveVars, worldVars, enemyVars, towerVars, loopVars>>

\* ProjectileSystem.handleSingleTargetHit(projectileId, targetId, data), as
\* checkProjectileCollisions calls it for an active projectile that has not
\* hit and has no area damage; nothing is emitted on the event bus
SingleTargetHit(projectileId, targetId) ==
  LET data   == projectileData[projectileId]
      isDead == applyDamageResult(EnemyWorld, targetId, data.damage)
      hurt   == applyDamage(EnemyWorld, targetId, data.damage)
  IN /\ projectileId \in activeProjectiles
     /\ ~data.hasHit
     /\ data.aoe = NoAoe
     /\ SetEnemyWorld(IF isDead THEN destroyEnemy(hurt, targetId) ELSE hurt)
     /\ SetProjectileWorld(IF data.piercing THEN ProjectileWorld
                           ELSE despawnProjectile(ProjectileWorld, projectileId))
     /\ last' = [op |-> "singleTargetHit", targetId |-> targetId,
                 damage |-> data.damage, isDead |-> isDead,
                 bounty |-> IF isDead THEN destroyEnemyResult(hurt, targetId) ELSE 0]
     /\ UNCHANGED <<coreVars, econVars, waveVars, entities, nextEntityId, components, towerVars, loopVars>>

(***************************************************************************)
(* GameManager.update(dt), one call after the other                        *)
(***************************************************************************)
MaxTicks == 3            \* GameManager.update is called up to this many times

CollisionRadius == 8     \* "Small collision radius for projectiles"

\* PathManager.getFlowAtGrid
getFlowAtGrid(dirs, gridPos) ==
  IF isValidPosition(gridPos) THEN dirs[gridPos] ELSE Zero

\* PathManager.getInterpolatedFlow: the bilinear sum over the four grid
\* points around worldPos, the weights fx and fy counted in pixels (so the
\* sum is the flow times cellSize * cellSize)
interpolatedSum(dirs, worldPos) ==
  LET x0 == worldPos.x \div cellSize
      y0 == worldPos.y \div cellSize
      fx == worldPos.x % cellSize
      fy == worldPos.y % cellSize
      flow00 == getFlowAtGrid(dirs, [x |-> x0, y |-> y0])
      flow10 == getFlowAtGrid(dirs, [x |-> x0 + 1, y |-> y0])
      flow01 == getFlowAtGrid(dirs, [x |-> x0, y |-> y0 + 1])
      flow11 == getFlowAtGrid(dirs, [x |-> x0 + 1, y |-> y0 + 1])
  IN [x |-> (cellSize - fx) * (cellSize - fy) * flow00.x + fx * (cellSize - fy) * flow10.x
              + (cellSize - fx) * fy * flow01.x + fx * fy * flow11.x,
      y |-> (cellSize - fx) * (cellSize - fy) * flow00.y + fx * (cellSize - fy) * flow10.y
              + (cellSize - fx) * fy * flow01.y + fx * fy * flow11.y]

\* PathManager.getInterpolatedFlow, in thousandths
getInterpolatedFlow(dirs, worldPos) ==
  [x |-> interpolatedSum(dirs, worldPos).x \div (cellSize * cellSize),
   y |-> interpolatedSum(dirs, worldPos).y \div (cellSize * cellSize)]

\* MovementSystem.updateEnemyMovement: the Movement the position is advanced
\* with; a direction is set only if the sampled flow is not zero
steered(m, dirs, pos) ==
  IF interpolatedSum(dirs, pos) # Zero
    THEN setDirection(m, getInterpolatedFlow(dirs, pos))
    ELSE m

\* a version of steered that stops on a zero flow
steeredOrStopped(m, dirs, pos) == setDirection(m, getInterpolatedFlow(dirs, pos))

\* CollisionManager.queryRadius(center, radius, team) on the index idx: the
\* entity ids of the objects returned
inRadius(idx, center, radius, team) ==
  { id \in DOMAIN idx : /\ idx[id].team = team
                        /\ distSquared(idx[id].position, center) <= radius * radius }

\* GameManager.updateSpatialGrid: the index is cleared and every active enemy
\* is added with a copy of its position
updateSpatialGrid(E) ==
  [id \in E.active |-> [position |-> E.position[id], team |-> "enemy"]]

\* an area damage without the floor of falloff
aoeDamageNoFalloff(damage, d2, radius, falloffPct) ==
  LET byDistance == { k \in 0 .. damage :
                        damage * damage * d2 <= (damage - k) * (damage - k) * radius * radius }
  IN IF byDistance = {} THEN 0 ELSE CHOOSE k \in byDistance : \A j \in byDistance : j <= k

\* Math.floor(damage * Math.max(falloff, 1 - distance / radius)), for the
\* squared distance d2: k <= damage * (1 - distance / radius) exactly when
\* damage^2 * d2 <= (damage - k)^2 * radius^2
aoeDamage(damage, d2, radius, falloffPct) ==
  LET byDistance == { k \in 0 .. damage :
                        damage * damage * d2 <= (damage - k) * (damage - k) * radius * radius }
  IN Max(FloorPct(damage, falloffPct),
         IF byDistance = {} THEN 0 ELSE CHOOSE k \in byDistance : \A j \in byDistance : j <= k)

\* the orders in which a query may return the ids of T
Orders(T) ==
  { order \in [1 .. Cardinality(T) -> T] :
      \A i, j \in 1 .. Cardinality(T) : i # j => order[i] # order[j] }

\* the loop of handleAOEHit over the targets from the i-th on: applyDamage
\* with the damage of dealt, then destroyEnemy if the enemy is dead
RECURSIVE damageAll(_, _, _, _)
damageAll(E, order, dealt, i) ==
  IF i > Len(order) THEN E
  ELSE LET id   == order[i]
           hurt == applyDamage(E, id, dealt[id])
       IN damageAll(IF applyDamageResult(E, id, dealt[id]) THEN destroyEnemy(hurt, id)
                    ELSE hurt,
                    order, dealt, i + 1)

\* GameManager.update(dt) begins: waveManager.update(dt)
UpdateWave(dt) ==
  /\ gameUpdate.calls = << >>
  /\ gameUpdate.ticks < MaxTicks
  /\ waveUpdate(dt)
  /\ frame' = 1 - frame
  /\ collision' = collision
  /\ gameUpdate' = [gameUpdate EXCEPT !.dt = dt, !.calls = <<"wave">>, !.killed = {},
                                      !.ticks = @ + 1]

\* economy.update(dt)
UpdateEconomy ==
  /\ gameUpdate.calls = <<"wave">>
  /\ economy' = updateInterest(economy, gameUpdate.dt)
  /\ gameUpdate' = [gameUpdate EXCEPT !.calls = Append(@, "economy")]
  /\ last' = [op |-> "economy.update", dt |-> gameUpdate.dt,
              emitted |-> updateInterestEvents(economy, gameUpdate.dt)]
  /\ UNCHANGED <<coreVars, waveVars, worldVars, enemyVars, towerVars, projVars, collision>>

\* world.update(dt) calls movementSystem.update: an entity with an enemy
\* record is steered by the flow field, moved, and given its current speed
\* (EnemyFactory.updateEnemy); every other entity moves with its velocity
UpdateMovement ==
  LET dt == gameUpdate.dt
      steer == [id \in EnemyIds |->
                  IF id \in DOMAIN enemyData
                    THEN steered(enemyMovement[id], directions, enemyPosition[id])
                    ELSE enemyMovement[id]]
  IN /\ gameUpdate.calls = <<"wave", "economy">>
     /\ enemyPosition' = [id \in EnemyIds |->
                            moved(enemyPosition[id], steer[id].velocity, dt)]
     /\ enemyMovement' = [id \in EnemyIds |->
                            IF id \in DOMAIN enemyData
                              THEN setSpeed(steer[id], enemyData[id].currentSpeed)
                              ELSE steer[id]]
     /\ health' = [id \in EnemyIds |-> updateEnemy(EnemyWorld, id, dt).health[id]]
     /\ projectilePosition' = [id \in ProjectileIds |->
                                 moved(projectilePosition[id],
                                       projectileMovement[id].velocity, dt)]
     /\ gameUpdate' = [gameUpdate EXCEPT !.calls = Append(@, "movement")]
     /\ last' = [op |-> "movement", dt |-> dt,
                 zeroFlow |-> { id \in DOMAIN enemyData :
                                  interpolatedSum(directions, enemyPosition[id]) = Zero }]
     /\ UNCHANGED <<coreVars, econVars, waveVars, entities, nextEntityId, components,
                    enemyAvailable, activeEnemies,
                    enemyData, enemyHits, projectileAvailable, activeProjectiles,
                    projectileData, projectileMovement, towerVars, collision>>

\* Grid.gridToWorld of the tower's cell: the Position createTower gives it
towerPosition(id) == gridToWorld(towerData[id].gridPosition)

\* TargetingSystem.findClosestTarget: the targets it may return
closestTargets(id) ==
  LET targets == inRadius(collision, towerPosition(id),
                          TowerConfigs[towerData[id].type].range, "enemy")
  IN { t \in targets :
         \A u \in targets : distSquared(collision[t].position, towerPosition(id))
                              <= distSquared(collision[u].position, towerPosition(id)) }

\* TargetingSystem.performAttack of the towers from id on, in the order of
\* their entity ids: createBasicProjectile towards the target's indexed
\* position
RECURSIVE performAttacks(_, _, _)
performAttacks(P, target, id) ==
  IF id > EnemyPoolSize + ProjectilePoolSize + MaxTowerEntities THEN P
  ELSE performAttacks(
         IF id \in DOMAIN target
           THEN spawnProjectile(P, projectileConfig(TowerConfigs[towerData[id].type].baseDamage,
                                                    FALSE, NoAoe),
                                towerPosition(id), collision[target[id]].position)
           ELSE P,
         target, id + 1)

\* targetingSystem.update: every tower whose cool-down has passed on the
\* wall clock and that finds a target fires at it
UpdateTargeting ==
  /\ gameUpdate.calls = <<"wave", "economy", "movement">>
  /\ \E firing \in SUBSET { id \in DOMAIN towerData \cap DOMAIN entities :
                            closestTargets(id) # {} } :
       \E target \in [firing -> EnemyIds] :
         /\ \A id \in firing : target[id] \in closestTargets(id)
         /\ SetProjectileWorld(performAttacks(ProjectileWorld, target,
                                              EnemyPoolSize + ProjectilePoolSize + 1))
         /\ towerData' = [id \in DOMAIN towerData |->
                            IF id \in firing
                              THEN [towerData[id] EXCEPT !.lastTargetId = target[id]]
                              ELSE towerData[id]]
         /\ last' = [op |-> "targeting", target |-> target]
  /\ gameUpdate' = [gameUpdate EXCEPT !.calls = Append(@, "targeting")]
  /\ UNCHANGED <<coreVars, econVars, waveVars, worldVars, enemyVars, collision>>

\* projectileSystem.update begins: getActiveProjectiles() copies the set
UpdateProjectiles ==
  /\ gameUpdate.calls = <<"wave", "economy", "movement", "targeting">>
  /\ gameUpdate' = [gameUpdate EXCEPT !.calls = Append(@, "projectile"),
                                      !.pending = activeProjectiles]
  /\ last' = [op |-> "projectiles", pending |-> activeProjectiles]
  /\ UNCHANGED <<coreVars, econVars, waveVars, worldVars, enemyVars, towerVars, projVars,
                 collision>>

\* an updateProjectile that lets a projectile live through the tick at which
\* its lifetime reaches the maximum
updateProjectileLate(data, dt) == data.lifetime + dt <= data.maxLifetime

\* ProjectilePool.updateProjectile(projectileId, dt) returns true: the
\* lifetime advanced by dt is below the maximum lifetime
updateProjectile(data, dt) == data.lifetime + dt < data.maxLifetime

\* the body of the loop of projectileSystem.update for one projectile:
\* updateProjectile, then checkProjectileCollisions with target as targets[0]
\* and, for an area projectile, with the targets in the given order
projectileStep(projectileId, target, order) ==
  LET dt       == gameUpdate.dt
      data     == projectileData[projectileId]
      lifetime == data.lifetime + dt
      aged     == [ProjectileWorld EXCEPT !.data[projectileId].lifetime = lifetime]
      expired  == ~updateProjectile(data, dt)
      pos      == projectilePosition[projectileId]
      targets  == inRadius(collision, pos, CollisionRadius, "enemy")
      blast    == inRadius(collision, pos, data.aoe.radius, "enemy")
      checks   == ~expired /\ ~data.hasHit
      hits     == checks /\ targets # {}
      isAoe    == data.aoe # NoAoe
      dealt    == IF ~hits THEN << >>
                  ELSE IF isAoe
                    THEN [id \in blast |->
                            aoeDamage(data.damage, distSquared(collision[id].position, pos),
                                      data.aoe.radius, data.aoe.falloff)]
                  ELSE [id \in {target} |-> data.damage]
      struck   == IF hits /\ isAoe THEN order ELSE IF hits THEN <<target>> ELSE << >>
      after    == damageAll(EnemyWorld, struck, dealt, 1)
  IN /\ projectileId \in gameUpdate.pending
     /\ target \in IF hits THEN targets ELSE {Undefined}
     /\ order \in IF hits /\ isAoe THEN Orders(blast) ELSE {<< >>}
     /\ SetEnemyWorld(after)
     /\ SetProjectileWorld(IF expired \/ (hits /\ (isAoe \/ ~data.piercing))
                             THEN despawnProjectile(aged, projectileId)
                             ELSE aged)
     /\ gameUpdate' = [gameUpdate EXCEPT !.pending = @ \ {projectileId},
                                         !.killed = @ \cup (activeEnemies \ after.active)]
     /\ last' = [op |-> "projectile", projectileId |-> projectileId,
                 piercing |-> data.piercing, aoe |-> data.aoe, damage |-> data.damage,
                 position |-> pos, expired |-> expired, hit |-> hits,
                 queried |-> IF ~checks THEN {}
                             ELSE IF hits /\ isAoe THEN targets \cup blast ELSE targets,
                 dealt |-> dealt]
     /\ UNCHANGED <<coreVars, econVars, waveVars, entities, nextEntityId, components, towerVars,
                    collision>>

\* one projectile of the copied set is updated
UpdateProjectile(projectileId) ==
  /\ gameUpdate.calls = <<"wave", "economy", "movement", "targeting", "projectile">>
  /\ \E target \in EnemyIds \cup {Undefined},
        order \in UNION { Orders(T) : T \in SUBSET EnemyIds } :
       projectileStep(projectileId, target, order)

\* GameManager.update ends: updateSpatialGrid and calculateBuffs;
\* checkGameState changes nothing here
UpdateSpatialGrid ==
  /\ gameUpdate.calls = <<"wave", "economy", "movement", "targeting", "projectile">>
  /\ gameUpdate.pending = {}
  /\ collision' = updateSpatialGrid(EnemyWorld)
  /\ towerData' = calculateBuffs(TowerWorld)
  /\ gameUpdate' = [gameUpdate EXCEPT !.calls = << >>]
  /\ last' = [op |-> "updateSpatialGrid"]
  /\ UNCHANGED <<coreVars, econVars, waveVars, worldVars, enemyVars, projVars>>

\* ProjectilePool.spawn of a projectile at the indexed position of an enemy
SpawnProjectileAt(config, enemyId) ==
  /\ enemyId \in DOMAIN collision
  /\ SpawnProjectile(config, collision[enemyId].position, collision[enemyId].position)

(***************************************************************************)
(* Initial state and specifications                                        *)
(***************************************************************************)
\* the state after construction, but for the flow field and the wave manager
InitRest ==
  /\ cells = generateDefaultPath
  /\ nSetCell = 0
  /\ available = [i \in 1 .. PoolCapacity |-> i]
  /\ holding = [h \in Holders |-> Null]
  /\ created = PoolCapacity
  /\ returned = {}
  /\ heap = << >>
  /\ objects = << >>
  /\ grid = << >>
  /\ nUpdate = 0
  /\ economy = NewEconomy
  /\ timers = 0
  /\ frame = 0
  /\ lastSpawn = NeverSpawned
  /\ entities = [id \in EnemyIds \cup ProjectileIds |->
                   IF id \in EnemyIds THEN EnemyComponents ELSE ProjectileComponents]
  /\ nextEntityId = EnemyPoolSize + ProjectilePoolSize + 1
  /\ components = [t \in ComponentTypes |-> { id \in EnemyIds \cup ProjectileIds :
                     t \in (IF id \in EnemyIds THEN EnemyComponents
                                              ELSE ProjectileComponents) }]
  /\ health = [id \in EnemyIds |-> [current |-> DefaultHealth, max |-> DefaultHealth]]
  /\ enemyAvailable = [i \in 1 .. EnemyPoolSize |-> i]
  /\ activeEnemies = {}
  /\ enemyData = << >>
  /\ towerData = << >>
  /\ projectileAvailable = [i \in 1 .. ProjectilePoolSize |-> EnemyPoolSize + i]
  /\ activeProjectiles = {}
  /\ projectileData = [id \in ProjectileIds |-> NewProjectile]
  /\ enemyPosition = [id \in EnemyIds |-> Zero]
  /\ enemyMovement = [id \in EnemyIds |-> NewMovement]
  /\ enemyHits = [id \in EnemyIds |-> << >>]
  /\ projectilePosition = [id \in ProjectileIds |-> Zero]
  /\ projectileMovement = [id \in ProjectileIds |-> NewMovement]
  /\ collision = << >>
  /\ gameUpdate = NewUpdate
  /\ last = [op |-> "new"]

\* new PathManager(grid): nothing computed yet
InitFlow ==
  /\ costs = initialCosts
  /\ directions = initialDirections
  /\ isDirty = TRUE
  /\ dirty = TRUE

Init ==
  /\ InitRest
  /\ InitFlow
  /\ wave = NewWave(TRUE)

\* the GameManager constructor has computed the initial flow field
InitFlowComputed ==
  /\ costs = calculateCostField(generateDefaultPath, goal, resetCosts(initialCosts))
  /\ directions = calculateFlowField(costs, initialDirections)
  /\ isDirty = FALSE
  /\ dirty = FALSE

\* new GameManager()
InitGame ==
  /\ InitRest
  /\ InitFlowComputed
  /\ wave = NewWave(TRUE)

\* the wave manager of a new game; the endless mode of config/waves.json is
\* enabled or not
InitWave ==
  /\ InitRest
  /\ InitFlowComputed
  /\ wave \in {NewWave(enabled) : enabled \in BOOLEAN}

NextGrid ==
  \/ \E pos \in PosInputs, id \in EntityIds : PlaceTower(pos, id)
  \/ \E pos \in PosInputs : RemoveTower(pos)
  \/ \E pos \in PosInputs, cell \in CellInputs : SetCell(pos, cell)

\* the flow field reads only the walkable flag of a cell: one cell of each kind
FlowCellInputs == { c \in CellInputs : c.buildable # c.walkable }

NextFlow ==
  \/ \E pos \in Cells, cell \in FlowCellInputs : SetCell(pos, cell)
  \/ \E g \in Cells : ComputeFlowField(g)
  \/ MarkDirty

NextPool ==
  \/ \E h \in Holders : Request(h)
  \/ \E h \in Holders : Recycle(h)
  \/ \E obj \in PoolValues : RecycleAgain(obj)

NextSpatial ==
  \/ \E id \in SpatialIds, p \in Points, r \in 0 .. MaxObjRadius, t \in Teams :
       Insert(id, p, r, t)
  \/ \E id \in SpatialIds : Remove(id)
  \/ \E id \in SpatialIds, p \in Points : Update(id, p)
  \/ Clear

NextEconomy ==
  \/ \E amount \in Amounts : AddGold(amount)
  \/ \E amount \in Amounts : SpendGold(amount)
  \/ \E bounty \in Amounts : OnEnemyKilled(bounty)
  \/ \E bounty \in Amounts : OnWaveCompleted(bounty)
  \/ \E cost \in Amounts : OnTowerPurchased(cost)
  \/ \E cost \in Amounts : OnTowerUpgraded(cost)
  \/ \E refund \in Amounts : OnTowerSold(refund)
  \/ \E dt \in Dts : EconomyUpdate(dt)

\* bonuses are started and expire while enemies are killed
NextBonus ==
  \/ ApplyBonusMultiplier(BonusPct)
  \/ \E i \in 1 .. MaxBonuses : BonusExpired(i)
  \/ \E bounty \in Amounts : OnEnemyKilled(bounty)

SpecBonus   == Init /\ [][NextBonus]_vars

NextWave ==
  \/ \E dt \in Dts : WaveUpdate(dt)
  \/ \E n \in WaveNumberInputs : StartWave(n)
  \/ AutoStartTimer
  \/ SkipPrep
  \/ StopWave
  \/ \E enabled \in BOOLEAN : SetAutoStart(enabled)
  \/ WaveOnEnemyKilled
  \/ WaveOnEnemyReachedGoal
  \/ \E id \in EnemyIds : DestroyEnemy(id)

NextWorld ==
  \/ CreateEntity
  \/ \E id \in WorldIdInputs, type \in WorldTypeInputs : AddComponent(id, type)
  \/ \E id \in WorldIdInputs, type \in WorldTypeInputs : RemoveComponent(id, type)
  \/ \E id \in WorldIdInputs : DestroyEntity(id)
  \/ \E types \in SUBSET WorldTypeInputs : GetEntitiesWithComponents(types)

SpecWorld   == Init /\ [][NextWorld]_vars
\* the tower factory on the row above the default path and on one cell of
\* the path
FactorySites == { p \in Cells : p.y = pathY - 1 } \cup {spawn}

NextTower ==
  \/ \E towerType \in TowerTypeInputs, gridPos \in FactorySites :
       CreateTower(towerType, gridPos)
  \/ \E entityId \in FactoryIdInputs : UpgradeTower(entityId)
  \/ \E entityId \in FactoryIdInputs : DestroyTower(entityId)
  \/ CalculateBuffs

SpecTower   == InitGame /\ [][NextTower]_vars
\* regenerating enemies are spawned, damaged and updated
NextRegen ==
  \/ GameSpawnEnemy("regenerating")
  \/ \E enemyId \in EnemyIds : ApplyDamage(enemyId, HeavyDamage)
  \/ \E enemyId \in EnemyIds, dt \in Dts : UpdateEnemy(enemyId, dt)

SpecRegen   == InitGame /\ [][NextRegen]_vars
\* the enemy factory alone: enemies are spawned and destroyed, and the
\* factory is cleared
NextEnemies ==
  \/ \E enemyType \in DOMAIN EnemyConfigs \cup {"unknown"} : GameSpawnEnemy(enemyType)
  \/ \E enemyId \in EnemyIds : DestroyEnemy(enemyId)
  \/ ClearEnemies

SpecEnemies == InitGame /\ [][NextEnemies]_vars
SpecGrid    == Init /\ [][NextGrid]_vars
SpecFlow    == Init /\ [][NextFlow]_vars
SpecPool    == Init /\ [][NextPool]_vars
SpecSpatial == Init /\ [][NextSpatial]_vars
SpecEconomy == Init /\ [][NextEconomy]_vars
SpecWave    == InitWave /\ [][NextWave]_vars

\* the ledger is used, the balance is spent whole, and the game is saved and
\* loaded
NextLedger ==
  \/ \E amount \in Amounts : AddGold(amount)
  \/ \E amount \in Amounts : SpendGold(amount)
  \/ SpendAll
  \/ \E dt \in Dts : EconomyUpdate(dt)
  \/ SaveAndLoad

SpecLedger == Init /\ [][NextLedger]_vars

\* the cells of the default route
RouteCells == { p \in Cells : p.y = pathY }

\* the player builds and upgrades towers; a cell of the route may be changed
NextGame ==
  \/ \E towerType \in TowerTypeInputs, gridPos \in PosInputs :
       GamePlaceTower(towerType, gridPos)
  \/ \E entityId \in TowerIdInputs : GameUpgradeTower(entityId)
  \/ \E pos \in RouteCells, cell \in FlowCellInputs : SetCell(pos, cell)

\* enemies are spawned, damaged and destroyed
NextDamage ==
  \/ \E enemyType \in EnemyTypeInputs : GameSpawnEnemy(enemyType)
  \/ \E enemyId \in EnemyIds, damage \in DamageInputs : ApplyDamage(enemyId, damage)
  \/ \E enemyId \in EnemyIds : DestroyEnemy(enemyId)

\* enemies are spawned and hit by projectiles
NextCombat ==
  \/ \E enemyType \in EnemyTypeInputs : GameSpawnEnemy(enemyType)
  \/ \E damage \in DamageInputs, piercing \in BOOLEAN :
       SpawnProjectile(projectileConfig(damage, piercing, NoAoe),
                       gridToWorld(spawn), gridToWorld(spawn))
  \/ \E projectileId \in ProjectileIds, targetId \in EnemyIds :
       SingleTargetHit(projectileId, targetId)

\* one kind of enemy is spawned and hit by one kind of projectile, which
\* does not pierce
NextVolley ==
  \/ GameSpawnEnemy("normal")
  \/ SpawnProjectile(projectileConfig(HeavyDamage, FALSE, NoAoe),
                     gridToWorld(spawn), gridToWorld(spawn))
  \/ \E projectileId \in ProjectileIds, targetId \in EnemyIds :
       SingleTargetHit(projectileId, targetId)

SpecGame   == InitGame /\ [][NextGame]_vars
SpecVolley == InitGame /\ [][NextVolley]_vars
SpecDamage == InitGame /\ [][NextDamage]_vars
SpecCombat == InitGame /\ [][NextCombat]_vars

\* the cell above the route where a tower is built
TowerSite == [x |-> 1, y |-> pathY - 1]

\* the game loop runs update after update; between two updates an armored
\* enemy is spawned, a tower is built, or a projectile is put on an indexed
\* enemy
NextLoop ==
  \/ UpdateWave(TickDt)
  \/ UpdateEconomy
  \/ UpdateMovement
  \/ UpdateTargeting
  \/ UpdateProjectiles
  \/ \E projectileId \in ProjectileIds : UpdateProjectile(projectileId)
  \/ UpdateSpatialGrid
  \/ GameSpawnEnemy("armored")
  \/ GamePlaceTower("basic", TowerSite)
  \/ \E piercing \in BOOLEAN, enemyId \in EnemyIds :
       SpawnProjectileAt(projectileConfig(HeavyDamage, piercing, NoAoe), enemyId)

SpecLoop == InitGame /\ [][NextLoop]_vars

\* the game loop with frames of either length, area projectiles and no tower
NextBlast ==
  \/ \E dt \in Dts : UpdateWave(dt)
  \/ UpdateEconomy
  \/ UpdateMovement
  \/ UpdateTargeting
  \/ UpdateProjectiles
  \/ \E projectileId \in ProjectileIds : UpdateProjectile(projectileId)
  \/ UpdateSpatialGrid
  \/ GameSpawnEnemy("normal")
  \/ \E enemyId \in EnemyIds :
       SpawnProjectileAt(projectileConfig(HeavyDamage, FALSE,
                                          [radius |-> AoeRadius, falloff |-> AoeFalloffPct]),
                         enemyId)

SpecBlast == InitGame /\ [][NextBlast]_vars

\* the game loop with frames of either length and no projectile in play,
\* while a cell of the route is changed and the flow field is marked dirty
NextMarch ==
  \/ \E dt \in Dts : UpdateWave(dt)
  \/ UpdateEconomy
  \/ UpdateMovement
  \/ UpdateTargeting
  \/ UpdateProjectiles
  \/ UpdateSpatialGrid
  \/ GameSpawnEnemy("normal")
  \/ \E pos \in RouteCells, cell \in FlowCellInputs : SetCell(pos, cell)
  \/ MarkDirty

SpecMarch == InitGame /\ [][NextMarch]_vars

\* a game whose waves are started one after the other while the game loop
\* keeps ticking
NextTicking ==
  \/ \E dt \in Dts : GameLoopUpdate(dt)
  \/ StartWave(Undefined)
  \/ WaveOnEnemyKilled
  \/ WaveOnEnemyReachedGoal
  \/ \E enemyId \in EnemyIds : DestroyEnemy(enemyId)

\* the game loop calls update(dt) again and again
SpecWaveLive ==
  InitGame /\ [][NextTicking]_vars /\ WF_vars(\E dt \in Dts : GameLoopUpdate(dt))

(***************************************************************************)
(* Properties of the Grid (checked under SpecGrid)                         *)
(***************************************************************************)
\* the cells joined to the cells of S by 4-connected steps over walkable cells
RECURSIVE Reach4(_, _)
Reach4(c, S) ==
  LET T == S \cup { q \in Cells : /\ c[q].walkable
                                  /\ \E p \in S, i \in 1 .. 4 : q = Add(p, directions4[i]) }
  IN IF T = S THEN S ELSE Reach4(c, T)

\* a route of walkable cells leads from the spawn cell to the goal cell
RouteExists(c) == c[spawn].walkable /\ goal \in Reach4(c, {spawn})

\* every route from spawn to goal passes through pos
OnEveryRoute(c, pos) ==
  RouteExists(c) /\ ~RouteExists([c EXCEPT ![pos].walkable = FALSE])

\* C1: a placeTower or removeTower call, successful or rejected, made on a grid
\* that has a route of walkable cells from spawn to goal leaves such a route.
C1_RouteSurvivesTowers ==
  [][(last'.op \in {"placeTower", "removeTower"} /\ RouteExists(cells))
       => RouteExists(cells')]_vars

C1_Witness ==
  /\ last.op = "placeTower" /\ last.result
  /\ RouteExists(cells)
  /\ \E p \in Cells : Truthy(cells[p].occupiedBy)

\* C2: placeTower on a buildable cell that lies on every walkable route from
\* spawn to goal returns false, and the cell is buildable and unoccupied
\* afterwards.
C2_BlockingPlacementRejected ==
  [][\A pos \in Cells, id \in EntityIds :
       (PlaceTower(pos, id) /\ isBuildable(cells, pos) /\ OnEveryRoute(cells, pos))
         => /\ last'.result = FALSE
            /\ cells'[pos].buildable
            /\ ~Truthy(cells'[pos].occupiedBy)]_vars

\* C3: a placeTower call that returns false leaves every cell's type, walkable
\* flag, buildable flag and occupant as they were before the call.
C3_RejectedPlacementChangesNothing ==
  [][(last'.op = "placeTower" /\ last'.result = FALSE) => cells' = cells]_vars

\* a placement was rejected by the path check, after the tentative marking
C3_Witness ==
  /\ last.op = "placeTower" /\ last.result = FALSE /\ last.why = "noPath"
  /\ \E p \in Cells : isBuildable(cells, p) /\ ~hasValidPath(Occupy(cells, p, 1))

(***************************************************************************)
(* Properties of the flow field (checked under SpecFlow)                   *)
(***************************************************************************)
Sgn(n) == IF n > 0 THEN 1 ELSE IF n < 0 THEN -1 ELSE 0

\* the cell the stored direction of p points to
PointsTo(p) == [x |-> p.x + Sgn(directions[p].x), y |-> p.y + Sgn(directions[p].y)]

Recomputed == last.op = "computeFlowField" /\ last.wasDirty

\* C4: after computeFlowField(goal) on a dirty field every cell of finite cost
\* other than the goal stores a direction to an in-bounds neighbour of strictly
\* lower cost, and every cell of infinite cost stores the zero vector.
C4_FlowDescends ==
  Recomputed =>
    \A p \in Cells :
      IF costs[p] = Infinity THEN directions[p] = Zero
      ELSE p # last.g =>
             /\ directions[p] # Zero
             /\ isValidPosition(PointsTo(p))
             /\ costs[PointsTo(p)] < costs[p]

\* a recomputed field with a diagonal descent and an unreachable cell
C4_Witness ==
  /\ Recomputed
  /\ \E p \in Cells : /\ costs[p] < Infinity /\ p # last.g
                      /\ directions[p].x # 0 /\ directions[p].y # 0
  /\ \E q \in Cells : costs[q] = Infinity /\ directions[q] = Zero

Neighbours8(p) ==
  { q \in Cells : q # p /\ Abs(q.x - p.x) <= 1 /\ Abs(q.y - p.y) <= 1 }

StepWeight(p, q) == IF p.x # q.x /\ p.y # q.y THEN 1414 ELSE 1000

Least(S) == CHOOSE m \in S : \A n \in S : m <= n

\* n rounds of relaxation of the route lengths D over every cell at once
\* (@@ makes each round's function a table, so that it is computed once)
RECURSIVE RouteLengths(_, _, _, _)
RouteLengths(c, g, D, n) ==
  IF n = 0 THEN D
  ELSE RouteLengths(c, g,
         [p \in Cells |->
            IF p = g THEN 0
            ELSE IF ~c[p].walkable THEN Infinity
            ELSE Least({Infinity} \cup
                       { D[q] + StepWeight(p, q) :
                           q \in { r \in Neighbours8(p) : D[r] < Infinity } })] @@ << >>,
         n - 1)

\* the length of the shortest 8-connected route from g to each cell through
\* walkable cells, Infinity where there is none
ShortestRoute(c, g) ==
  RouteLengths(c, g, [p \in Cells |-> IF p = g THEN 0 ELSE Infinity],
               Cardinality(Cells))

\* C5: after computeFlowField(goal) on a dirty field the cost of every cell is
\* the length of the shortest 8-connected route from the goal through walkable
\* cells (orthogonal step 1, diagonal step 1.414, goal 0), and is infinite
\* exactly where there is no such route.
C5_CostsAreShortestRoutes ==
  Recomputed => costs = ShortestRoute(cells, last.g)

\* a recomputed field in which a cell off the default path, made walkable by
\* setCell, is reached by one diagonal and one orthogonal step
C5_Witness ==
  /\ Recomputed
  /\ \E p \in Cells : p.y # pathY /\ cells[p].walkable /\ costs[p] = 2414
  /\ \E q \in Cells : costs[q] = Infinity

(***************************************************************************)
(* Properties of the Pool (checked under SpecPool)                         *)
(***************************************************************************)
NoDuplicates(seq) == \A i, j \in 1 .. Len(seq) : i # j => seq[i] # seq[j]

\* C6: getAvailableCount() + getUsedCount() is the capacity and the available
\* count stays within 0 .. capacity after any sequence of request and recycle
\* calls; request on an empty pool returns null and creates no value.
C6_PoolCounts ==
  /\ getAvailableCount + getUsedCount = PoolCapacity
  /\ 0 <= getAvailableCount
  /\ getAvailableCount <= PoolCapacity
  /\ created = PoolCapacity
  /\ (last.op = "request" /\ last.wasEmpty) => (last.result = Null /\ available = << >>)

\* a request found the pool empty, and a recycle found it full
C6_Witness ==
  \/ last.op = "request" /\ last.wasEmpty /\ last.result = Null
                         /\ \E h \in Holders : holding[h] = Null

\* C7: recycling a value that was recycled already and not requested since
\* changes nothing; available never holds a value twice; no two holders hold
\* the same value.
C7_DoubleRecycleIsNoOp ==
  [][/\ (last'.op = "recycle" /\ last'.again) => available' = available
     /\ NoDuplicates(available')
     /\ \A h1, h2 \in Holders :
          (h1 # h2 /\ holding'[h1] # Null) => holding'[h1] # holding'[h2]]_vars

(***************************************************************************)
(* Properties of the spatial index (checked under SpecSpatial)             *)
(***************************************************************************)
\* every bucket key an object of the model can touch
BucketKeys ==
  [x : cellOf(0 - MaxObjRadius) .. cellOf(MaxCoord + MaxObjRadius),
   y : cellOf(0 - MaxObjRadius) .. cellOf(MaxCoordY + MaxObjRadius)]

\* bucket k covers [k * CellSize, (k + 1) * CellSize) on each axis
Overlaps(obj, k) ==
  /\ obj.position.x - obj.radius < (k.x + 1) * CellSize
  /\ obj.position.x + obj.radius >= k.x * CellSize
  /\ obj.position.y - obj.radius < (k.y + 1) * CellSize
  /\ obj.position.y + obj.radius >= k.y * CellSize

Holds(k, id) ==
  k \in DOMAIN grid /\ \E i \in 1 .. Len(grid[k]) : heap[grid[k][i]].entityId = id

\* C8: a bucket holds an entity id exactly when the entity is stored and its
\* footprint (position +/- radius) overlaps the bucket; after remove(id) no
\* bucket holds id.
C8_BucketsMatchFootprint ==
  \A id \in SpatialIds, k \in BucketKeys \cup DOMAIN grid :
    Holds(k, id) <=> (id \in DOMAIN objects /\ Overlaps(heap[objects[id]], k))

Stored == { objects[id] : id \in DOMAIN objects }

QueryTeams == Teams \cup {NoTeam}

\* the stored entries within radius of center that pass the team filter
Matches(center, radius, team) ==
  { ref \in Stored : /\ distSquared(heap[ref].position, center) <= radius * radius
                     /\ (team = NoTeam \/ heap[ref].team = team) }

\* C9: queryRadius returns exactly the stored entries within radius of center
\* that pass the team filter, each once, and no other entry.
C9_QueryRadiusExact ==
  \A center \in Points, radius \in 0 .. MaxQueryRadius, team \in QueryTeams :
    LET res == queryRadius(Index, center, radius, team)
    IN NoDuplicates(res) /\ Range(res) = Matches(center, radius, team)

\* C10: queryNearest returns a team-matching stored entry within maxRadius at
\* the least distance from center, and returns nothing only when there is no
\* team-matching stored entry within maxRadius.
C10_QueryNearestIsNearest ==
  \A center \in Points, maxRadius \in 0 .. MaxQueryRadius, team \in QueryTeams :
    LET res == queryNearest(Index, center, maxRadius, team)
        M   == Matches(center, maxRadius, team)
    IN IF res = Null THEN M = {}
       ELSE /\ res \in M
            /\ \A m \in M : distSquared(heap[res].position, center)
                              <= distSquared(heap[m].position, center)

(***************************************************************************)
(* Properties of the Economy (checked under SpecEconomy)                   *)
(***************************************************************************)
\* C14: after any sequence of income operations (kill bounty, wave bounty,
\* sale refund, interest, addGold) and expense operations (purchase, upgrade,
\* spendGold), the balance equals the starting balance plus everything
\* credited minus everything charged:
\* getGold() = startingGold + getTotalEarned() - getTotalSpent().
C14_BalanceIsStartPlusEarnedMinusSpent ==
  economy.gold = StartingGold + economy.totalEarned - economy.totalSpent

\* interest has just been granted on a ledger that holds an expense
C14_Witness ==
  /\ last.op = "economy.update"
  /\ last.emitted # << >>
  /\ economy.totalSpent > 0
  /\ economy.totalEarned > 0

\* a call of spendGold, directly or from the purchase and upgrade listeners
SpendOps == {"spendGold", "tower:purchased", "tower:upgraded"}

\* C15: spendGold(amount) with amount greater than the balance returns false,
\* emits economy:insufficientFunds and leaves the balance, the spent total and
\* the transaction log unchanged; the balance is never negative after any
\* sequence of addGold and spendGold calls with non-negative amounts.
C15_OverdraftRefused ==
  /\ [][(last'.op \in SpendOps /\ last'.amount > economy.gold)
          => /\ last'.result = FALSE
             /\ last'.emitted = <<"economy:insufficientFunds">>
             /\ economy'.gold = economy.gold
             /\ economy'.totalSpent = economy.totalSpent
             /\ economy'.transactions = economy.transactions]_vars
  /\ [](economy.gold >= 0)

\* a spendGold was refused on a ledger that already holds a transaction
C15_Witness ==
  /\ last.op = "spendGold"
  /\ last.result = FALSE
  /\ last.amount > economy.gold
  /\ economy.transactions # << >>

\* the ledger entries of type income, in order
Incomes(log) == SelectSeq(log, LAMBDA t : t.type = "income")

\* C17: each time the interest timer reaches the interest interval with a
\* positive balance, the balance grows by exactly
\* floor(min(balance, maxInterestGold) * interestRate), granted once for that
\* period, and the timer restarts; between periods no interest is granted, and
\* a grant never exceeds floor(maxInterestGold * interestRate).
C17_InterestOncePerPeriod ==
  [][last'.op = "economy.update" =>
       LET t      == economy.interestTimer + last'.dt
           base   == IF economy.gold < MaxInterestGold THEN economy.gold
                     ELSE MaxInterestGold
           grant  == (base * InterestRatePct) \div 100
           gained == economy'.gold - economy.gold
       IN /\ gained <= (MaxInterestGold * InterestRatePct) \div 100
          /\ t < InterestInterval =>
               /\ gained = 0
               /\ economy'.interestTimer = t
               /\ economy'.transactions = economy.transactions
          /\ (t >= InterestInterval /\ economy.gold > 0) =>
               /\ gained = grant
               /\ economy'.interestTimer = 0
               /\ economy'.totalEarned = economy.totalEarned + grant
               /\ Len(Incomes(economy'.transactions))
                    <= Len(Incomes(economy.transactions)) + 1]_vars

\* interest was granted on a balance above the cap
C17_Witness ==
  /\ last.op = "economy.update"
  /\ "economy:interest" \in Range(last.emitted)
  /\ economy.gold > MaxInterestGold + (MaxInterestGold * InterestRatePct) \div 100
  /\ economy.interestTimer = 0

(***************************************************************************)
(* C11: a wave completes only when every spawned enemy is accounted for    *)
(***************************************************************************)
\* the step is a handler that ran completeWave on an active wave
CompletesWave ==
  /\ wave.waveState = "active"
  /\ last'.op = "wave"
  /\ Len(last'.trail) > 0
  /\ last'.trail[1] = "completed"

AllAccounted ==
  /\ wave.waveState = "active"
  /\ activeEnemies = {}
  /\ wave.totalEnemiesSpawned = wave.totalEnemiesKilled

\* C12 as stated: once the wave is active with every spawned enemy killed or
\* escaped, it eventually is no longer active (it was completed) as ticks
\* continue
C12_AllAccountedLeadsToCompleted ==
  AllAccounted ~> (wave.waveState # "active")

(***************************************************************************)
(* C13: the transitions of the wave state                                  *)
(***************************************************************************)
\* the six transitions of the wave state machine
WaveTransitions ==
  { <<"waiting", "preparing">>, <<"preparing", "spawning">>,
    <<"spawning", "active">>, <<"active", "completed">>,
    <<"completed", "waiting">>, <<"completed", "preparing">> }

\* every change of waveState the step made is one of the six transitions
StepsAlongTransitions ==
  LET states == <<wave.waveState>> \o last'.trail
  IN \A i \in 1 .. Len(states) - 1 : <<states[i], states[i + 1]>> \in WaveTransitions

\* C13 as stated: every change of the wave state is one of the six
\* transitions
C13_OnlySixTransitions ==
  [][StepsAlongTransitions]_vars

\* C13: every change of the wave state is one of the six transitions, or is
\* made by stopWave, which sets Waiting from any state
C13_SixTransitionsOrStop ==
  [][StepsAlongTransitions \/ (StopWave /\ wave'.waveState = "waiting")]_vars

\* stopWave has just set Waiting, and the wave had been started
C13_Witness ==
  /\ last.op = "wave"
  /\ last.trail = <<"waiting">>
  /\ wave.currentWave > 0
  /\ wave.prepTimer < PrepTime

(***************************************************************************)
(* C16: a purchase is charged exactly once                                 *)
(***************************************************************************)
\* C16 as stated: a successful GameManager.placeTower lowers the gold by
\* exactly the tower's cost, and a successful upgradeTower by exactly the
\* upgrade cost
C16_PurchaseChargedOnce ==
  [][(last'.op \in {"game.placeTower", "game.upgradeTower"} /\ last'.result)
       => economy'.gold = economy.gold - last'.cost]_vars

(***************************************************************************)
(* C18: a failed placement changes nothing                                 *)
(***************************************************************************)
\* C18: when GameManager.placeTower returns false, the gold, the grid cells,
\* the tower records and the live entities with their components are as
\* before
C18_FailedPlacementChangesNothing ==
  [][(last'.op = "game.placeTower" /\ ~last'.result)
       => /\ economy' = economy
          /\ cells' = cells
          /\ towerData' = towerData
          /\ entities' = entities
          /\ health' = health]_vars

\* a placement has failed in Grid.placeTower, after the entity was created
C18_Witness ==
  /\ last.op = "game.placeTower"
  /\ ~last.result
  /\ last.why = "placeFailed"
  /\ nextEntityId > EnemyPoolSize + ProjectilePoolSize + 1

(***************************************************************************)
(* C19: applyDamage                                                        *)
(***************************************************************************)
\* C19: applyDamage on a live enemy lowers its health by
\* max(1, amount - armor), clamped at 0, and returns true exactly when the
\* health has reached 0
C19_DamageAfterArmor ==
  [][(last'.op = "applyDamage" /\ last'.enemyId \in DOMAIN enemyData)
       => LET id     == last'.enemyId
              before == health[id].current
              dealt  == Max(1, last'.damage - enemyData[id].armor)
          IN /\ health'[id].current = Max(0, before - dealt)
             /\ last'.result = (health'[id].current = 0)]_vars

\* the armor exceeded the damage, and the hit killed the enemy
C19_Witness ==
  /\ last.op = "applyDamage"
  /\ last.enemyId \in DOMAIN enemyData
  /\ enemyData[last.enemyId].armor > last.damage
  /\ last.result

(***************************************************************************)
(* C20: a killing hit destroys the enemy and pays its bounty               *)
(***************************************************************************)
\* C20 as stated: when a non-area hit brings the target's health to 0, the
\* same step deletes the enemy's record, returns its entity to the pool,
\* removes it from the active set, and raises the gold by
\* floor(bounty * killBountyMultiplier)
C20_KillDestroysAndPays ==
  [][(last'.op = "singleTargetHit" /\ last'.isDead)
       => /\ last'.targetId \notin DOMAIN enemyData'
          /\ last'.targetId \notin activeEnemies'
          /\ \E i \in 1 .. Len(enemyAvailable') : enemyAvailable'[i] = last'.targetId
          /\ economy'.gold =
               economy.gold + FloorPct(last'.bounty, economy.killBountyMultiplier)]_vars

\* C26: deserialize applied to the output of serialize restores the ledger:
\* the balance, the lifetime earned and spent totals and the interest timer
\* are afterwards what they were when the snapshot was taken.
C26_LoadRestoresLedger ==
  [][last'.op = "economy.load" =>
       /\ economy'.gold = economy.gold
       /\ economy'.totalEarned = economy.totalEarned
       /\ economy'.totalSpent = economy.totalSpent
       /\ economy'.interestTimer = economy.interestTimer]_vars

\* C21: an enemy spawned with 100 health and hit three times by a 25-damage
\* non-piercing projectile is at 25 health and alive after two hits, and after
\* the third hit it is dead: back in the pool, its bounty credited.
C21_ThreeHitsKill ==
  (NormalHealth = 100 /\ HeavyDamage = 25) =>
    \A id \in EnemyIds :
      health[id].max = NormalHealth =>
        /\ enemyHits[id] = <<HeavyDamage, HeavyDamage>> =>
             id \in activeEnemies /\ health[id].current = 25
        /\ enemyHits[id] = <<HeavyDamage, HeavyDamage, HeavyDamage>> =>
             /\ id \notin activeEnemies
             /\ id \in Range(enemyAvailable)
             /\ economy.totalEarned >= NormalBounty

\* C24: spawnEnemy fails closed.  When the pool is exhausted it returns none,
\* and whenever it returns none (unknown type or exhausted pool) no entity
\* has left the pool, no record was created, and the active set and every
\* component of every entity are as they were.
C24_SpawnFailsClosed ==
  [][last'.op = "game.spawnEnemy" =>
       /\ enemyAvailable = << >> => ~last'.result
       /\ ~last'.result =>
            UNCHANGED <<enemyAvailable, enemyData, activeEnemies, health,
                        enemyPosition, enemyMovement, entities, nextEntityId, components,
                        projVars, flowVars>>]_vars

\* a spawn was refused because the pool was exhausted
C24_Witness ==
  /\ last.op = "game.spawnEnemy"
  /\ ~last.result
  /\ enemyAvailable = << >>
  /\ Cardinality(activeEnemies) = EnemyPoolSize

\* C25: an enemy the wave manager spawns in a wave w > 1 carries the wave's
\* scaling: its maximum health is floor(template health * mult(w)), its speed
\* is the template speed * mult(w) and its bounty floor(bounty * mult(w)),
\* with mult(w) = 1 + (w - 1) * rate.
C25_SpawnCarriesWaveScaling ==
  [][(last'.op = "wave" /\ wave.currentWave > 1) =>
       \A id \in activeEnemies' \ activeEnemies :
         LET scaled == scaledStats(wave, enemyData'[id].type)
         IN /\ health'[id].max = scaled.health
            /\ health'[id].current = scaled.health
            /\ enemyMovement'[id].speed * 100 = scaled.speed
            /\ enemyData'[id].bounty = scaled.bounty]_vars

\* C30: during Spawning every group emits one enemy per elapsed interval:
\* two consecutive spawns of a group are at least the group's interval
\* apart, the first is no earlier than the group's delay, and the wave
\* becomes Active only after every group has emitted its count.
C30_SpawnsPacedByInterval ==
  [][(last'.op = "wave" /\ wave.waveState = "spawning" /\ hasCurrentWaveConfig(wave)) =>
       LET groups == getCurrentWaveConfig(wave).enemies
           group  == wave.currentSpawnGroup
       IN /\ activeEnemies' \ activeEnemies # {} =>
               /\ Truthy(groups[group + 1].delay) =>
                    wave'.spawnTimer >= groups[group + 1].delay
               /\ lastSpawn.group = group =>
                    wave'.spawnTimer - lastSpawn.at >= groups[group + 1].interval
          /\ wave'.waveState = "active" =>
               wave'.totalEnemiesSpawned = waveSize(groups, 1)]_vars

(***************************************************************************)
(* Properties of the game loop (checked under SpecLoop and SpecBlast)      *)
(***************************************************************************)
\* the place the specification gives a call in a tick: movement, targeting,
\* projectile resolution, then the wave and economy bookkeeping
Place(call) ==
  CASE call = "movement"   -> 1
    [] call = "targeting"  -> 2
    [] call = "projectile" -> 3
    [] OTHER               -> 4

\* C27: in every tick movement runs before targeting, targeting before
\* projectile resolution, and projectile resolution before WaveManager.update
\* and Economy.update.
C27_SystemsBeforeBookkeeping ==
  \A i, j \in DOMAIN gameUpdate.calls :
    i < j => Place(gameUpdate.calls[i]) <= Place(gameUpdate.calls[j])

\* C23: an enemy whose sampled flow is zero stops advancing: movementSystem
\* .update leaves its Position as it was, whatever direction it had before.
C23_ZeroFlowStops ==
  [][last'.op = "movement" =>
       \A id \in last'.zeroFlow : enemyPosition'[id] = enemyPosition[id]]_vars

\* C22: within a tick, once a projectile has killed an enemy, no later query
\* of the spatial index in that tick returns the enemy's id.
C22_KilledLeavesIndex ==
  [][last'.op = "projectile" => last'.queried \cap gameUpdate.killed = {}]_vars

\* C28: a piercing projectile, on each tick while it is alive, applies its
\* damage to every enemy within its collision radius and is not despawned
\* by hitting; it leaves play only when its lifetime expires.
C28_PiercingHitsAllInRadius ==
  [][(last'.op = "projectile" /\ last'.piercing /\ last'.aoe = NoAoe) =>
       /\ ~last'.expired =>
            /\ \A id \in last'.queried \cap activeEnemies :
                 id \in DOMAIN last'.dealt /\ last'.dealt[id] = last'.damage
            /\ last'.projectileId \in activeProjectiles'
       /\ last'.expired => last'.projectileId \notin activeProjectiles']_vars

\* k <= damage * max(falloff, 1 - d / radius), for the squared distance d2
AtMostBlast(k, damage, d2, radius, falloffPct) ==
  \/ 100 * k <= damage * falloffPct
  \/ k <= damage /\ damage * damage * d2 <= (damage - k) * (damage - k) * radius * radius

\* C29: when an area projectile detonates, every enemy at distance d <=
\* radius of the blast centre (its position in the spatial index) receives
\* floor(damage * max(falloff, 1 - d / radius)) before armor, an enemy
\* farther away receives none, and the projectile is despawned.
C29_BlastDamageByDistance ==
  [][(last'.op = "projectile" /\ last'.aoe # NoAoe /\ last'.hit) =>
       /\ \A id \in DOMAIN collision \cap activeEnemies :
            LET d2     == distSquared(collision[id].position, last'.position)
                radius == last'.aoe.radius
                taken  == takeDamage(enemyData[id].armor, last'.dealt[id])
            IN IF d2 <= radius * radius
                 THEN /\ id \in DOMAIN last'.dealt
                      /\ AtMostBlast(last'.dealt[id], last'.damage, d2, radius,
                                     last'.aoe.falloff)
                      /\ ~AtMostBlast(last'.dealt[id] + 1, last'.damage, d2, radius,
                                      last'.aoe.falloff)
                      /\ IF health[id].current > taken
                           THEN /\ id \in activeEnemies'
                                /\ health'[id].current = health[id].current - taken
                           ELSE id \notin activeEnemies'
                 ELSE /\ id \notin DOMAIN last'.dealt
                      /\ id \in activeEnemies'
                      /\ health'[id] = health[id]
       /\ last'.projectileId \notin activeProjectiles']_vars

\* a blast has damaged one enemy in full and another one by its distance,
\* above the falloff floor
C29_Witness ==
  /\ last.op = "projectile" /\ last.aoe # NoAoe /\ last.hit
  /\ \E id, other \in DOMAIN last.dealt \cap activeEnemies :
       /\ last.dealt[id] = last.damage
       /\ FloorPct(last.damage, last.aoe.falloff) < last.dealt[other]
       /\ last.dealt[other] < last.damage
       /\ health[other].current = health[other].max - last.dealt[other]

(***************************************************************************)
(* The dirty flag of the flow field (checked under SpecFlow)               *)
(***************************************************************************)
\* C31: computeFlowField on a field that is not dirty changes neither costs
\* nor directions; markDirty changes only the dirty flag; the next
\* computeFlowField recomputes costs and directions from the current grid
\* and clears the flag.
C31_RecomputedOnlyWhenDirty ==
  [][/\ (last'.op = "computeFlowField" /\ ~isDirty /\ ~dirty) =>
          UNCHANGED <<costs, directions, isDirty, dirty, cells>>
     /\ last'.op = "markDirty" =>
          /\ isDirty' /\ dirty'
          /\ UNCHANGED <<costs, directions, cells>>
     /\ (last'.op = "computeFlowField" /\ (isDirty \/ dirty)) =>
          /\ costs' = ShortestRoute(cells, last'.g)
          /\ directions' = calculateFlowField(costs', directions)
          /\ ~isDirty' /\ ~dirty'
          /\ cells' = cells]_vars

\* computeFlowField was called on a field that was not dirty after setCell had
\* closed a cell: the closed cell keeps its finite cost and its direction
C31_Witness ==
  /\ last.op = "computeFlowField" /\ ~last.wasDirty
  /\ ~isDirty /\ ~dirty
  /\ \E p \in Cells : /\ ~cells[p].walkable
                      /\ costs[p] < Infinity /\ costs[p] > 0
                      /\ directions[p] # Zero

(***************************************************************************)
(* The lifetime of a projectile (checked under SpecLoop)                   *)
(***************************************************************************)
\* C32: a projectile is despawned no later than the first ProjectileSystem
\* tick at which its accumulated lifetime reaches its maximum lifetime,
\* whether or not it hits anything: that tick takes it out of the active set
\* and returns it to the pool, every other tick adds dt > 0 to its lifetime,
\* and no active projectile has a lifetime at or above its maximum.
C32_DespawnedAtLifetime ==
  [][/\ last'.op = "projectile" =>
          LET p   == last'.projectileId
              age == projectileData[p].lifetime + gameUpdate.dt
          IN /\ p \in activeProjectiles
             /\ gameUpdate.dt > 0
             /\ age >= projectileData[p].maxLifetime =>
                  /\ p \notin activeProjectiles'
                  /\ \E i \in DOMAIN projectileAvailable' : projectileAvailable'[i] = p
             /\ p \in activeProjectiles' => projectileData'[p].lifetime = age
     /\ \A q \in activeProjectiles' :
          projectileData'[q].lifetime < projectileData'[q].maxLifetime]_vars

\* a projectile that hit nothing is despawned by the tick at which its
\* lifetime reaches the maximum, and a piercing one that hit an enemy on an
\* earlier tick is still in flight
C32_Witness ==
  /\ last.op = "projectile" /\ last.expired /\ ~last.hit
  /\ last.projectileId \notin activeProjectiles
  /\ \E q \in activeProjectiles :
       /\ projectileData[q].piercing
       /\ projectileData[q].lifetime > 0
       /\ \E id \in DOMAIN enemyHits : enemyHits[id] # << >>

(***************************************************************************)
(* The entity store (checked under SpecWorld)                              *)
(***************************************************************************)
\* the component types of which the store returns a component for id
Held(id) == { t \in ComponentTypes : getComponent(WorldStore, id, t) }

\* C33: after any sequence of createEntity, addComponent, removeComponent and
\* destroyEntity, getEntitiesWithComponents(types) returns every live entity
\* that holds all the listed component types exactly once and no other
\* entity; after destroyEntity(id) the id is forgotten, getComponent(id, t)
\* yields absent for every type t, and no later createEntity returns that id
\* (createEntity returns an id above every id handed out before, and the
\* counter never goes back).
C33_StoreQueriesAndDestroys ==
  [][/\ last'.op = "getEntitiesWithComponents" =>
          LET r == last'.result
          IN /\ \A id \in DOMAIN entities :
                  last'.types \subseteq Held(id) =>
                    Cardinality({ i \in DOMAIN r : r[i] = id }) = 1
             /\ \A i \in DOMAIN r :
                  r[i] \in DOMAIN entities /\ last'.types \subseteq Held(r[i])
     /\ last'.op = "destroyEntity" =>
          /\ last'.id \notin DOMAIN entities'
          /\ \A t \in ComponentTypes : last'.id \notin components'[t]
          /\ last'.live => last'.id < nextEntityId'
     /\ last'.op = "createEntity" =>
          /\ last'.id \notin DOMAIN entities
          /\ \A t \in ComponentTypes : last'.id \notin components[t]
          /\ last'.id \in DOMAIN entities'
          /\ last'.id < nextEntityId'
     /\ nextEntityId' >= nextEntityId
     /\ \A id \in DOMAIN entities' : id < nextEntityId'
     /\ \A t \in ComponentTypes : components'[t] \subseteq DOMAIN entities']_vars

\* a query for Position and Attack returns the one entity that holds both,
\* after an entity created by the store was destroyed and the next createEntity
\* gave a new id, and after a pooled entity lost its Position
C33_Witness ==
  /\ last.op = "getEntitiesWithComponents"
  /\ last.types = {"Position", "Attack"}
  /\ Len(last.result) = 1
  /\ nextEntityId - 2 \notin DOMAIN entities
  /\ nextEntityId - 2 > EnemyPoolSize + ProjectilePoolSize
  /\ last.result[1] = nextEntityId - 1
  /\ 1 \in DOMAIN entities /\ "Position" \notin Held(1)

(***************************************************************************)
(* A createTower that fails (checked under SpecGame)                       *)
(***************************************************************************)
\* C34: a createTower call that fails (unknown type, cell not buildable, or
\* grid placement rejected by the path check) leaves no new live entity and
\* no components in the entity store, no tower record, and every grid cell
\* unchanged.
C34_FailedCreateLeavesNoTrace ==
  [][(last'.op = "game.placeTower"
        /\ last'.why \in {"unknownType", "notBuildable", "placeFailed"})
       => /\ DOMAIN entities' = DOMAIN entities
          /\ entities' = entities
          /\ components' = components
          /\ \A t \in ComponentTypes : nextEntityId \notin components'[t]
          /\ towerData' = towerData
          /\ cells' = cells]_vars

\* the grid rejected the placement while a tower stands: the entity created
\* for the new tower is gone again
C34_Witness ==
  /\ last.op = "game.placeTower" /\ last.why = "placeFailed"
  /\ DOMAIN towerData # {}
  /\ nextEntityId - 1 \notin DOMAIN entities
  /\ nextEntityId - 1 \notin DOMAIN towerData
  /\ \A t \in ComponentTypes : components[t] \subseteq DOMAIN entities

(***************************************************************************)
(* The buffs of the support towers (checked under SpecTower)               *)
(***************************************************************************)
\* the support towers of data other than id that have the tower id in range
Supporters(data, id) ==
  { s \in DOMAIN data \ {id} :
      /\ TowerConfigs[data[s].type].type = "support"
      /\ inBuffRange(data[s], data[id]) }

C36_RegenerationAtIntervals ==
  [][(/\ last.op = "updateEnemy" /\ last'.op = "updateEnemy"
      /\ last'.enemyId = last.enemyId
      /\ last'.enemyId \in DOMAIN enemyData
      /\ health'[last'.enemyId].current < health'[last'.enemyId].max)
       => \/ last.healed = 0
          \/ last'.healed = 0
          \/ last'.healed = last.healed]_vars

(***************************************************************************)
(* The records of the enemy factory (checked under SpecEnemies)            *)
(***************************************************************************)
\* C37: after any sequence of spawnEnemy, destroyEnemy and clear the entity
\* ids with an enemy record are the pool's active enemies, and their number
\* is the pool's used count (capacity minus available); a destroyEnemy of an
\* id that was destroyed before returns 0 and changes nothing.
C37_RecordsMatchActiveSet ==
  [][/\ DOMAIN enemyData' = activeEnemies'
     /\ Cardinality(activeEnemies') = EnemyPoolSize - Len(enemyAvailable')
     /\ last'.op = "destroyEnemy" =>
          /\ last'.enemyId \notin DOMAIN enemyData'
          /\ last'.enemyId \notin DOMAIN enemyData =>
               /\ last'.result = 0
               /\ UNCHANGED <<enemyVars, worldVars, projVars, towerVars>>
          /\ last'.enemyId \in DOMAIN enemyData =>
               last'.result = enemyData[last'.enemyId].bounty]_vars

\* the same enemy was destroyed twice in a row while another enemy is in play
C37_Witness ==
  /\ last.op = "destroyEnemy" /\ last.result = 0
  /\ last.enemyId \in { enemyAvailable[i] : i \in DOMAIN enemyAvailable }
  /\ activeEnemies # {}
  /\ DOMAIN enemyData = activeEnemies

(***************************************************************************)
(* Tower records and grid cells (checked under SpecTower)                  *)
(***************************************************************************)
\* C38: after any sequence of createTower, upgradeTower and destroyTower a
\* grid cell has an occupant id exactly when a tower record with that id and
\* that grid position exists, every occupied cell is not buildable, and no
\* two tower records share a grid position.
C38_CellsMatchTowerRecords ==
  /\ \A p \in Cells :
       /\ cells[p].occupiedBy # Undefined =>
            /\ cells[p].occupiedBy \in DOMAIN towerData
            /\ towerData[cells[p].occupiedBy].gridPosition = p
            /\ ~cells[p].buildable
            /\ ~isBuildable(cells, p)
  /\ \A id \in DOMAIN towerData :
       cells[towerData[id].gridPosition].occupiedBy = id
  /\ \A a, b \in DOMAIN towerData :
       towerData[a].gridPosition = towerData[b].gridPosition => a = b

\* a tower was placed after an earlier tower was destroyed, while an upgraded
\* tower stands
C38_Witness ==
  /\ last.op = "createTower" /\ last.why = "placed"
  /\ last.id \in DOMAIN towerData
  /\ \E id \in DOMAIN towerData : id # last.id /\ towerData[id].tier > 0
  /\ \E id \in FactoryIdInputs :
       /\ id < last.id
       /\ id \notin DOMAIN towerData
       /\ id \notin DOMAIN entities

(***************************************************************************)
(* stopWave and the auto-start timeout (checked under SpecWave)            *)
(***************************************************************************)
\* C39: after stopWave() the wave state stays Waiting until startWave or
\* startNextWave is called explicitly: an auto-start timeout set by an
\* earlier completeWave that fires right after the stop leaves the state
\* Waiting.
C39_StoppedWaveStaysWaiting ==
  [][(/\ last.op = "wave"
      /\ "call" \in DOMAIN last
      /\ last.call = "stopWave"
      /\ timers' < timers)
       => wave'.waveState = "waiting"]_vars

(***************************************************************************)
(* Bonus multipliers (checked under SpecBonus)                             *)
(***************************************************************************)
\* C40: after every bonus started with applyBonusMultiplier has expired,
\* killBountyMultiplier equals the value it had before the first of those
\* bonuses started, also when the bonus periods overlap in time.
C40_MultiplierRestored ==
  [][(last'.op = "bonusExpired" /\ economy'.bonusTimeouts = << >>)
       => economy'.killBountyMultiplier = economy.bonusBase]_vars

====
